---- MODULE Spec2Model ----
(***************************************************************************)
(* FPC voting engine of goshimmer (packages/vote/fpc/fpc.go): queue        *)
(* admission (Vote), round execution (Round: enqueue, form opinions,       *)
(* finalize, increment rounds, query fan-out, tally) and the events the    *)
(* engine emits.                                                           *)
(*                                                                         *)
(* Numbers: mana is counted in thousandths, thresholds and the round's     *)
(* random number in hundredths; a float64 proportion is the pair <<n, d>>  *)
(* standing for n/d, and d = 0 stands for NaN (the result of 0.0/0.0).     *)
(***************************************************************************)
EXTENDS Integers, Sequences, FiniteSets, TLC

VARIABLES
    queue,                          \* FPC.queue: pending vote contexts, front first
    queueSet,                       \* FPC.queueSet: ids of the pending contexts
    ctxs,                           \* FPC.ctxs: id -> active vote context
    lastRoundCompletedSuccessfully, \* FPC.lastRoundCompletedSuccessfully
    paras,                          \* FPC.paras, fixed at construction
    env,                            \* behaviour of the collaborators: "any" or "like"
    pc,                             \* position of the driver inside Round
    tasks,                          \* query goroutines of the running fan-out
    conflictIDs,                    \* queryOpinions: ids of the conflict contexts, as iterated
    timestampIDs,                   \* queryOpinions: ids of the timestamp contexts
    voteMap,                        \* queryOpinions: votes per id
    voteMapMu,                      \* queryOpinions: the mutex guarding voteMap
    allQueriedOpinions,             \* queryOpinions: queried opinions collected so far
    mana,                           \* queryOpinions: ownMana and totalMana of this round
    opinionGivers,                  \* what opinionGiverFunc returned in this round
    events,                         \* events triggered by the running / last Round call
    roundErr,                       \* what the last Round call returned
    voteRet,                        \* what the last Vote call returned, and for which id
    succ,                           \* id -> successful Vote calls since its last removal
    terminated,                     \* ids a Finalized or Failed event was ever emitted for
    everSucceeded,                  \* some Round call's query phase has succeeded
    roundsAtCall,                   \* id -> Rounds of the contexts active when Round was called
    fnCall,                         \* the function under test and its arguments
    fnResult,                       \* what that function returned
    txn,                            \* a Transaction: its cached Id and its idMutex
    idCalls,                        \* the goroutines calling Transaction.ID()
    callStack,                      \* the frames of the calls UnlockValid has not returned from
    messageQueue,                   \* a MessageQueue: its heap, its size limit, its shutdown
    polled,                         \* the Poll calls made: the heap they found, what they returned
    fpcLocks,                       \* FPC.queueMu and FPC.ctxsMu, and the calls that take them
    queueCalls,                     \* the locks of a MessageQueue and the calls running on it
    tracker                         \* the node queue size tracker: its channels and goroutines

vars == <<queue, queueSet, ctxs, lastRoundCompletedSuccessfully, paras, env, pc,
          tasks, conflictIDs, timestampIDs, voteMap, voteMapMu, allQueriedOpinions, mana,
          opinionGivers,
          events, roundErr, voteRet, succ, terminated, everSucceeded, roundsAtCall,
          fnCall, fnResult, txn, idCalls, callStack, messageQueue, polled,
          fpcLocks, queueCalls, tracker>>

----------------------------------------------------------------------------
(* Bounds of the model *)

\* Round is not called any more once an active context has seen this many rounds.
RoundsCap == 5

IDs == {"A", "B"}

\* The Vote calls made: <<id, objectType, initOpn>>.
VoteCalls ==
    { <<"A", "ConflictType", "Like">>, <<"A", "ConflictType", "Dislike">>,
      <<"B", "TimestampType", "Like">> }

Opinions == {"Like", "Dislike", "Unknown"}
GiverIDs == {"g1", "g2"}
Rands == {0, 100}

----------------------------------------------------------------------------
(* Constants of the program *)

\* toleranceTotalMana = 0.001, in thousandths
toleranceTotalMana == 1

ErrVoteAlreadyOngoing == "ErrVoteAlreadyOngoing"
ErrNoOpinionGiversAvailable == "ErrNoOpinionGiversAvailable"
ErrOpinionGiverFunc == "opinionGiverFunc error"
ErrOwnWeightRetriever == "ownWeightRetrieverFunc error"
RoundErrors == {ErrNoOpinionGiversAvailable, ErrOpinionGiverFunc, ErrOwnWeightRetriever}

----------------------------------------------------------------------------
(* Parameters the engine is constructed with *)

\* Scenario 1 of the specification: cooling-off 0, finalization 3, max rounds 10,
\* first-round bounds [0.67, 0.67], subsequent bounds [0.5, 0.5].
ScenarioParameters ==
    [FirstRoundLowerBoundThreshold |-> 67, FirstRoundUpperBoundThreshold |-> 67,
     SubsequentRoundsLowerBoundThreshold |-> 50, SubsequentRoundsUpperBoundThreshold |-> 50,
     EndingRoundsFixedThreshold |-> 50,
     TotalRoundsCoolingOffPeriod |-> 0, TotalRoundsFinalization |-> 3,
     TotalRoundsFixedThreshold |-> 1, MaxRoundsPerVoteContext |-> 10,
     QuerySampleSize |-> 2, MaxQuerySampleSize |-> 3, MinOpinionsReceived |-> 1]

\* A short vote: two equal opinions finalize, three rounds fail, and a tally
\* without any opinion still counts.
ShortParameters ==
    [ScenarioParameters EXCEPT !.TotalRoundsFinalization = 2,
                               !.MaxRoundsPerVoteContext = 3,
                               !.QuerySampleSize = 1,
                               !.MaxQuerySampleSize = 2,
                               !.MinOpinionsReceived = 0]

\* The same short vote, with a cooling-off round and at least one opinion needed.
CoolingParameters ==
    [ShortParameters EXCEPT !.TotalRoundsCoolingOffPeriod = 1,
                            !.MinOpinionsReceived = 1]

\* The constructions the model starts from: the parameters and how the opinion
\* givers behave ("like": the provider and the weight retriever succeed and every
\* giver answers Like to every query; "flaky": as "like", but a Query can also fail
\* or answer with one opinion too many; "any": every outcome is possible).
Constructions ==
    { <<ScenarioParameters, "like">>, <<ScenarioParameters, "flaky">>,
      <<ShortParameters, "any">>, <<CoolingParameters, "any">> }

----------------------------------------------------------------------------
(* Vote context (package vote) *)

\* ProportionLiked of a context no tally has touched: -1.
likedInit == <<-1, 1>>

\* The float64 0.0/0.0.
NaN == <<0, 0>>

IsNaN(p) == p[2] = 0

NoWeights == [OwnWeight |-> 0, TotalWeights |-> 0]

AddOpinion(voteCtx, opn) == [voteCtx EXCEPT !.Opinions = Append(@, opn)]

NewContext(id, objectType, initOpn) ==
    AddOpinion([ID |-> id, Type |-> objectType, Opinions |-> <<>>, Rounds |-> 0,
                ProportionLiked |-> likedInit, Weights |-> NoWeights], initOpn)

LastOpinion(voteCtx) ==
    IF Len(voteCtx.Opinions) = 0 THEN "Unknown"
    ELSE voteCtx.Opinions[Len(voteCtx.Opinions)]

\* No round has been observed for the context yet.
IsNew(voteCtx) == voteCtx.ProportionLiked = likedInit

\* The first-round bounds apply.
HadFirstRound(voteCtx) == voteCtx.Rounds = 0

\* The context is in its trailing rounds of fixed threshold.
HadFixedRound(voteCtx, coolingOffPeriod, totalRoundsFinalization, totalRoundsFixedThreshold) ==
    voteCtx.Rounds > coolingOffPeriod + totalRoundsFinalization - totalRoundsFixedThreshold

\* The last totalRoundsFinalization opinions formed after the cooling-off period
\* (the initial opinion at index 1 is not a formed one) are all equal.
IsFinalized(voteCtx, coolingOffPeriod, totalRoundsFinalization) ==
    LET n == Len(voteCtx.Opinions) IN
    /\ n - 1 >= coolingOffPeriod + totalRoundsFinalization
    /\ \A i \in (n - totalRoundsFinalization + 1) .. n :
           voteCtx.Opinions[i] = voteCtx.Opinions[n - totalRoundsFinalization + 1]

\* Like -> 1.0, Dislike -> 0.0, Unknown -> -1.
ConvertOpinionToFloat64(opn) ==
    CASE opn = "Like" -> 1 [] opn = "Dislike" -> 0 [] OTHER -> -1

\* lower + rand * (upper - lower); rand and the bounds in hundredths, the result in
\* ten-thousandths.
RandUniformThreshold(rand, lowerThreshold, upperThreshold) ==
    100 * lowerThreshold + rand * (upperThreshold - lowerThreshold)

----------------------------------------------------------------------------
(* Small helpers for Go maps and slices *)

EmptyMap == [x \in {} |-> 0]

MapDelete(m, keys) == [k \in (DOMAIN m) \ keys |-> m[k]]

MapPut(m, k, v) == [x \in (DOMAIN m) \cup {k} |-> IF x = k THEN v ELSE m[x]]

Range(s) == {s[i] : i \in DOMAIN s}

QueueIDs == {queue[i].ID : i \in DOMAIN queue}

NoCall == [id |-> "-", err |-> "-"]

NoMana == [own |-> 0, total |-> 0]

\* opinionGiverFunc has not been called in this round.
NoProviderCall == [err |-> "-", givers |-> <<>>]

----------------------------------------------------------------------------
(* The variables the voting engine does not touch *)

queueVars == <<messageQueue, polled>>

concurrentVars == <<fpcLocks, queueCalls, tracker>>

nonFPCVars == <<fnCall, fnResult, txn, idCalls, callStack, queueVars, concurrentVars>>

NoFunction == [fn |-> "-"]

\* The function under test has not returned yet.
NoResult == [returned |-> FALSE]

NoTransaction == [Id |-> "nil", idMutex |-> "-"]

\* No MessageQueue exists.
NoQueue ==
    /\ messageQueue = [nil |-> TRUE]
    /\ polled = <<>>

\* No function is under test and no Transaction exists.
NoCalls ==
    /\ fnCall = NoFunction
    /\ fnResult = NoResult
    /\ txn = NoTransaction
    /\ idCalls = EmptyMap
    /\ callStack = <<>>

\* No call is running concurrently with another and no tracker is configured.
NoGoroutines ==
    /\ fpcLocks = [nil |-> TRUE]
    /\ queueCalls = [nil |-> TRUE]
    /\ tracker = [nil |-> TRUE]

NothingElse == NoCalls /\ NoQueue /\ NoGoroutines

----------------------------------------------------------------------------
(* State after New(opinionGiverFunc, ownWeightRetrieverFunc, paras) *)

\* The engine as New returns it, for the construction c.
NewFPC(c) ==
    /\ queue = <<>>
    /\ queueSet = {}
    /\ ctxs = EmptyMap
    /\ lastRoundCompletedSuccessfully = FALSE
    /\ paras = c[1] /\ env = c[2]
    /\ pc = "idle"
    /\ tasks = EmptyMap
    /\ conflictIDs = <<>>
    /\ timestampIDs = <<>>
    /\ voteMap = EmptyMap
    /\ voteMapMu = "unlocked"
    /\ allQueriedOpinions = <<>>
    /\ mana = NoMana
    /\ opinionGivers = NoProviderCall
    /\ events = {}
    /\ roundErr = "none"
    /\ voteRet = NoCall
    /\ succ = [id \in IDs |-> 0]
    /\ terminated = {}
    /\ everSucceeded = FALSE
    /\ roundsAtCall = EmptyMap

Init ==
    /\ \E c \in Constructions : NewFPC(c)
    /\ NothingElse

fpcVars == <<queue, queueSet, ctxs, lastRoundCompletedSuccessfully, paras, env, pc,
             tasks, conflictIDs, timestampIDs, voteMap, voteMapMu, allQueriedOpinions,
             mana, opinionGivers, events, roundErr, voteRet, succ, terminated,
             everSucceeded, roundsAtCall>>

\* The locals of queryOpinions that the query goroutines and the tally share.
queryLocals == <<conflictIDs, timestampIDs, voteMap, voteMapMu, allQueriedOpinions, mana>>

roundVars == <<pc, tasks, queryLocals, opinionGivers,
               events, roundErr, terminated, everSucceeded, roundsAtCall>>

----------------------------------------------------------------------------
(* Vote: queue admission *)

\* Successful admissions of an id are counted up to 2 ("more than one").
CountAdmission(id) == [succ EXCEPT ![id] = IF @ < 2 THEN @ + 1 ELSE @]

\* Vote without the check against the active contexts.
VoteIgnoresActive(id, objectType, initOpn) ==
    /\ IF id \in queueSet
       THEN /\ voteRet' = [id |-> id, err |-> ErrVoteAlreadyOngoing]
            /\ UNCHANGED <<queue, queueSet, succ>>
       ELSE /\ queue' = Append(queue, NewContext(id, objectType, initOpn))
            /\ queueSet' = queueSet \cup {id}
            /\ voteRet' = [id |-> id, err |-> "nil"]
            /\ succ' = CountAdmission(id)
    /\ UNCHANGED <<ctxs, lastRoundCompletedSuccessfully, paras, env>>
    /\ UNCHANGED roundVars
    /\ UNCHANGED nonFPCVars

\* Vote without the check against the pending queue.
VoteIgnoresQueued(id, objectType, initOpn) ==
    /\ IF id \in DOMAIN ctxs
       THEN /\ voteRet' = [id |-> id, err |-> ErrVoteAlreadyOngoing]
            /\ UNCHANGED <<queue, queueSet, succ>>
       ELSE /\ queue' = Append(queue, NewContext(id, objectType, initOpn))
            /\ queueSet' = queueSet \cup {id}
            /\ voteRet' = [id |-> id, err |-> "nil"]
            /\ succ' = CountAdmission(id)
    /\ UNCHANGED <<ctxs, lastRoundCompletedSuccessfully, paras, env>>
    /\ UNCHANGED roundVars
    /\ UNCHANGED nonFPCVars

Vote(id, objectType, initOpn) ==
    /\ IF id \in queueSet
       THEN /\ voteRet' = [id |-> id, err |-> ErrVoteAlreadyOngoing]
            /\ UNCHANGED <<queue, queueSet, succ>>
       ELSE IF id \in DOMAIN ctxs
       THEN /\ voteRet' = [id |-> id, err |-> ErrVoteAlreadyOngoing]
            /\ UNCHANGED <<queue, queueSet, succ>>
       ELSE /\ queue' = Append(queue, NewContext(id, objectType, initOpn))
            /\ queueSet' = queueSet \cup {id}
            /\ voteRet' = [id |-> id, err |-> "nil"]
            /\ succ' = CountAdmission(id)
    /\ UNCHANGED <<ctxs, lastRoundCompletedSuccessfully, paras, env>>
    /\ UNCHANGED roundVars
    /\ UNCHANGED nonFPCVars

----------------------------------------------------------------------------
(* Round, step 1: enqueue *)

RECURSIVE EnqueueAll(_, _)
\* The loop of enqueue: every pending context is stored under its id, front first.
EnqueueAll(q, m) ==
    IF q = <<>> THEN m
    ELSE EnqueueAll(Tail(q), MapPut(m, Head(q).ID, Head(q)))

\* The mutant of enqueue: the ids stay in queueSet.
enqueueKeepingQueueSet ==
    /\ ctxs' = EnqueueAll(queue, ctxs)
    /\ queue' = <<>>
    /\ queueSet' = queueSet

enqueue ==
    /\ ctxs' = EnqueueAll(queue, ctxs)
    /\ queue' = <<>>
    /\ queueSet' = queueSet \ QueueIDs

RoundEnqueue ==
    /\ pc = "idle"
    /\ \A id \in DOMAIN ctxs : ctxs[id].Rounds < RoundsCap
    /\ enqueue
    /\ pc' = IF lastRoundCompletedSuccessfully THEN "form" ELSE "increment"
    /\ events' = {}
    /\ tasks' = EmptyMap
    /\ opinionGivers' = NoProviderCall
    /\ voteRet' = NoCall
    /\ roundsAtCall' = [id \in DOMAIN ctxs |-> ctxs[id].Rounds]
    /\ UNCHANGED nonFPCVars
    /\ UNCHANGED <<lastRoundCompletedSuccessfully, paras, env, queryLocals, roundErr,
                   succ, terminated, everSucceeded>>

----------------------------------------------------------------------------
(* Round, step 2: form opinions *)

\* float64 comparisons on <<n, d>> (d >= 0); every comparison with NaN is false.
IsNegative(p) == p[2] # 0 /\ p[1] < 0

\* p >= threshold, the threshold in ten-thousandths.
AtLeast(p, threshold) == p[2] # 0 /\ 10000 * p[1] >= threshold * p[2]

\* The mutant of setThreshold: the ending rounds keep the bounds of the subsequent rounds.
setThresholdWithoutEnding(voteCtx) ==
    IF HadFirstRound(voteCtx)
    THEN <<paras.FirstRoundLowerBoundThreshold, paras.FirstRoundUpperBoundThreshold>>
    ELSE <<paras.SubsequentRoundsLowerBoundThreshold,
           paras.SubsequentRoundsUpperBoundThreshold>>

setThreshold(voteCtx) ==
    IF HadFixedRound(voteCtx, paras.TotalRoundsCoolingOffPeriod,
                     paras.TotalRoundsFinalization, paras.TotalRoundsFixedThreshold)
    THEN <<paras.EndingRoundsFixedThreshold, paras.EndingRoundsFixedThreshold>>
    ELSE IF HadFirstRound(voteCtx)
    THEN <<paras.FirstRoundLowerBoundThreshold, paras.FirstRoundUpperBoundThreshold>>
    ELSE <<paras.SubsequentRoundsLowerBoundThreshold,
           paras.SubsequentRoundsUpperBoundThreshold>>

\* The mutant of biasTowardsOwnOpinion: the own opinion is ignored.
biasTowardsNoOpinion(voteCtx) ==
    IF voteCtx.Weights.OwnWeight > 0 /\ voteCtx.Weights.TotalWeights = 0 THEN <<-1, 1>>
    ELSE voteCtx.ProportionLiked

biasTowardsOwnOpinion(voteCtx) ==
    LET totalMana == voteCtx.Weights.TotalWeights
        ownMana == voteCtx.Weights.OwnWeight
        ownOpinion == ConvertOpinionToFloat64(LastOpinion(voteCtx))
        p == voteCtx.ProportionLiked
    IN  IF ownMana > 0 /\ totalMana = 0 THEN <<-1, 1>>
        ELSE IF p = likedInit THEN p
        ELSE IF ownMana = 0 \/ totalMana = 0 THEN p
        ELSE IF ownOpinion < 0 THEN p
        ELSE IF IsNaN(p) THEN NaN
        ELSE <<ownMana * ownOpinion * p[2] + (totalMana - ownMana) * p[1],
               totalMana * p[2]>>

\* The mutant of FormOpinion: the loop without the `continue` for a new context.
FormOpinionOfNew(voteCtx, rand) ==
    LET bounds == setThreshold(voteCtx)
        biasedProportionLiked == biasTowardsOwnOpinion(voteCtx)
    IN  IF biasedProportionLiked # likedInit /\ IsNegative(biasedProportionLiked) THEN voteCtx
        ELSE IF AtLeast(biasedProportionLiked,
                        RandUniformThreshold(rand, bounds[1], bounds[2]))
        THEN AddOpinion(voteCtx, "Like")
        ELSE AddOpinion(voteCtx, "Dislike")

\* The body of the loop of formOpinions for one context.
FormOpinion(voteCtx, rand) ==
    IF IsNew(voteCtx) THEN voteCtx
    ELSE LET bounds == setThreshold(voteCtx)
             biasedProportionLiked == biasTowardsOwnOpinion(voteCtx)
         IN  IF IsNegative(biasedProportionLiked) THEN voteCtx
             ELSE IF AtLeast(biasedProportionLiked,
                             RandUniformThreshold(rand, bounds[1], bounds[2]))
             THEN AddOpinion(voteCtx, "Like")
             ELSE AddOpinion(voteCtx, "Dislike")

formOpinions(rand) ==
    ctxs' = [id \in DOMAIN ctxs |-> FormOpinion(ctxs[id], rand)]

RoundForm ==
    /\ pc = "form"
    /\ \E rand \in Rands : formOpinions(rand)
    /\ pc' = "finalize"
    /\ voteRet' = NoCall
    /\ UNCHANGED <<roundsAtCall, nonFPCVars>>
    /\ UNCHANGED <<queue, queueSet, lastRoundCompletedSuccessfully, paras, env, tasks,
                   queryLocals, opinionGivers, events,
                   roundErr, succ, terminated, everSucceeded>>

----------------------------------------------------------------------------
(* Round, step 3: finalize *)

OpinionEvent(type, voteCtx) ==
    [type |-> type, id |-> voteCtx.ID, opinion |-> LastOpinion(voteCtx),
     rounds |-> voteCtx.Rounds, ids |-> {}]

\* The contexts the loop of finalizeOpinions triggers Finalized for.
FinalizedIDs(m) ==
    {id \in DOMAIN m : IsFinalized(m[id], paras.TotalRoundsCoolingOffPeriod,
                                   paras.TotalRoundsFinalization)}

\* The loop without the continue after Finalized.
FailedIDsWithoutContinue(m) ==
    {id \in DOMAIN m : m[id].Rounds >= paras.MaxRoundsPerVoteContext}

\* The contexts the loop triggers Failed for: the finalized ones never get here.
FailedIDs(m) ==
    {id \in (DOMAIN m) \ FinalizedIDs(m) : m[id].Rounds >= paras.MaxRoundsPerVoteContext}

\* The loop without its delete statements.
DeletedIDsNone(m) == {}

\* The contexts the loop deletes.
DeletedIDs(m) == FinalizedIDs(m) \cup FailedIDs(m)

finalizeOpinions ==
    /\ events' = events \cup {OpinionEvent("Finalized", ctxs[id]) : id \in FinalizedIDs(ctxs)}
                        \cup {OpinionEvent("Failed", ctxs[id]) : id \in FailedIDs(ctxs)}
    /\ ctxs' = MapDelete(ctxs, DeletedIDs(ctxs))

RoundFinalize ==
    /\ pc = "finalize"
    /\ finalizeOpinions
    /\ succ' = [id \in IDs |-> IF id \in {e.id : e \in events' \ events} THEN 0
                                ELSE succ[id]]
    /\ terminated' = terminated \cup {e.id : e \in events' \ events}
    /\ pc' = "increment"
    /\ voteRet' = NoCall
    /\ UNCHANGED <<roundsAtCall, nonFPCVars>>
    /\ UNCHANGED <<queue, queueSet, lastRoundCompletedSuccessfully, paras, env, tasks,
                   queryLocals, opinionGivers,
                   roundErr, everSucceeded>>

----------------------------------------------------------------------------
(* Round, step 4: mark the round as done *)

\* The loop that marks only the contexts an opinion could be formed for.
IncrementRoundsAfterSuccess(m) ==
    [id \in DOMAIN m |->
        [m[id] EXCEPT !.Rounds = IF lastRoundCompletedSuccessfully THEN @ + 1 ELSE @]]

\* The loop over f.ctxs: Rounds++.
IncrementRounds(m) == [id \in DOMAIN m |-> [m[id] EXCEPT !.Rounds = @ + 1]]

RoundIncrement ==
    /\ pc = "increment"
    /\ ctxs' = IncrementRounds(ctxs)
    /\ pc' = "query"
    /\ voteRet' = NoCall
    /\ UNCHANGED <<roundsAtCall, nonFPCVars>>
    /\ UNCHANGED <<queue, queueSet, lastRoundCompletedSuccessfully, paras, env, tasks,
                   queryLocals, opinionGivers, events,
                   roundErr, succ, terminated, everSucceeded>>

----------------------------------------------------------------------------
(* Sampling of the opinion givers to query *)

\* One more selection of giver g.
Selected(sel, g) == MapPut(sel, g, IF g \in DOMAIN sel THEN sel[g] + 1 ELSE 1)

RECURSIVE SumMana(_)
SumMana(givers) ==
    IF givers = <<>> THEN 0 ELSE Head(givers).mana + SumMana(Tail(givers))

RECURSIVE UniformLoop(_, _, _, _)
\* The loop of UniformSampling from iteration i on: every draw rng.Intn can make.
UniformLoop(i, sel, givers, querySampleSize) ==
    IF i < querySampleSize
    THEN UNION {UniformLoop(i + 1, Selected(sel, givers[k].id), givers, querySampleSize) :
                k \in DOMAIN givers}
    ELSE {sel}

UniformSampling(givers, maxQuerySampleSize, querySampleSize) ==
    UniformLoop(0, EmptyMap, givers, querySampleSize)

RECURSIVE ManaLoopUntilMax(_, _, _, _, _)
\* The loop that draws maxQuerySampleSize times, however many givers it has selected.
ManaLoopUntilMax(i, sel, givers, maxQuerySampleSize, querySampleSize) ==
    IF i < maxQuerySampleSize
    THEN UNION {ManaLoopUntilMax(i + 1, Selected(sel, givers[k].id), givers,
                                 maxQuerySampleSize, querySampleSize) :
                k \in {j \in DOMAIN givers : givers[j].mana > 0}}
    ELSE {sel}

RECURSIVE ManaLoop(_, _, _, _, _)
\* The loop of ManaBasedSampling from iteration i on. rnd < totals[idx] holds first at
\* a giver of positive mana, and every such giver can be hit.
ManaLoop(i, sel, givers, maxQuerySampleSize, querySampleSize) ==
    IF i < maxQuerySampleSize /\ Cardinality(DOMAIN sel) < querySampleSize
    THEN UNION {ManaLoop(i + 1, Selected(sel, givers[k].id), givers,
                         maxQuerySampleSize, querySampleSize) :
                k \in {j \in DOMAIN givers : givers[j].mana > 0}}
    ELSE {sel}

\* The possible results: [sel |-> giver -> selection count, total |-> total mana].
ManaBasedSampling(givers, maxQuerySampleSize, querySampleSize) ==
    LET totalConsensusMana == SumMana(givers) IN
    IF totalConsensusMana <= toleranceTotalMana
    THEN {[sel |-> u, total |-> 0] :
          u \in UniformSampling(givers, maxQuerySampleSize, querySampleSize)}
    ELSE {[sel |-> w, total |-> totalConsensusMana] :
          w \in ManaLoop(0, EmptyMap, givers, maxQuerySampleSize, querySampleSize)}

----------------------------------------------------------------------------
(* The collaborators: opinion giver provider, own weight retriever, opinion givers *)

Giver(id, m) == [id |-> id, mana |-> m]

GiverLists ==
    { <<Giver("g1", 1000), Giver("g2", 1000)>>, <<Giver("g1", 0), Giver("g2", 0)>> }

\* What opinionGiverFunc can return.
ProviderResults ==
    {[err |-> "nil", givers |-> g] : g \in GiverLists}
    \cup (IF env = "any"
          THEN {[err |-> "nil", givers |-> <<>>], [err |-> ErrOpinionGiverFunc, givers |-> <<>>]}
          ELSE {})

\* What ownWeightRetrieverFunc can return.
OwnWeightResults ==
    {[err |-> "nil", mana |-> 1000]}
    \cup (IF env = "any"
          THEN {[err |-> "nil", mana |-> 0], [err |-> ErrOwnWeightRetriever, mana |-> 0]}
          ELSE {})

\* What a Query for n ids can return: an error (a timeout included), n opinions, or
\* a wrong number of opinions.
QueryResults(n) ==
    IF env = "any"
    THEN {[err |-> TRUE, opinions |-> <<>>], [err |-> FALSE, opinions |-> [i \in 1 .. n + 1 |-> "Like"]]}
         \cup {[err |-> FALSE, opinions |-> o] : o \in [1 .. n -> Opinions]}
    ELSE IF env = "flaky"
    THEN {[err |-> TRUE, opinions |-> <<>>],
          [err |-> FALSE, opinions |-> [i \in 1 .. n + 1 |-> "Like"]],
          [err |-> FALSE, opinions |-> [i \in 1 .. n |-> "Like"]]}
    ELSE {[err |-> FALSE, opinions |-> [i \in 1 .. n |-> "Like"]]}

----------------------------------------------------------------------------
(* Round, step 5: query opinions *)

\* The orders a map iteration can yield the elements of S in.
Orders(S) == {o \in [1 .. Cardinality(S) -> S] : Range(o) = S}

IDsOfType(m, type) == {id \in DOMAIN m : m[id].Type = type}

RoundStats(activeVoteContexts) ==
    [type |-> "RoundExecuted", id |-> "-", opinion |-> "-", rounds |-> 0,
     ids |-> DOMAIN activeVoteContexts]

\* The end of Round, from the return of queryOpinions on.
RoundReturn(err, activeVoteContexts) ==
    /\ roundErr' = err
    /\ pc' = "idle"
    /\ IF err = "nil"
       THEN /\ lastRoundCompletedSuccessfully' = TRUE
            /\ events' = events \cup {RoundStats(activeVoteContexts)}
            /\ everSucceeded' = TRUE
       ELSE UNCHANGED <<lastRoundCompletedSuccessfully, events, everSucceeded>>

\* The vote map with a mutex that is free, as createVoteMapForConflicts would return
\* it by reference.
createVoteMapUnlocked ==
    [voteMap |-> [id \in DOMAIN ctxs |-> <<>>], voteMapMu |-> "unlocked"]

\* The vote map and its mutex as queryOpinions receives them. The return statement
\* copies voteMapMu while it is held; the deferred Unlock then releases the local
\* variable of createVoteMapForConflicts, not the copy.
createVoteMapForConflicts ==
    [voteMap |-> [id \in DOMAIN ctxs |-> <<>>], voteMapMu |-> "locked"]

\* The early returns of queryOpinions without the check for an empty giver list.
QueryOutcomeNoEmptyCheck(c, t, og, own) ==
    IF Len(c) = 0 /\ Len(t) = 0 THEN "nothing to vote on"
    ELSE IF og.err # "nil" THEN og.err
    ELSE IF own.err # "nil" THEN own.err
    ELSE "dispatch"

\* How queryOpinions goes on, for one outcome of the map iteration (c, t), the
\* provider (og) and the weight retriever (own): the error it returns early, or
\* whether there is nothing to vote on, or whether the queries are dispatched.
QueryOutcome(c, t, og, own) ==
    IF Len(c) = 0 /\ Len(t) = 0 THEN "nothing to vote on"
    ELSE IF og.err # "nil" THEN og.err
    ELSE IF Len(og.givers) = 0 THEN ErrNoOpinionGiversAvailable
    ELSE IF own.err # "nil" THEN own.err
    ELSE "dispatch"

\* queryOpinions up to wg.Wait(); sample is the outcome of the sampling.
queryOpinions(c, t, og, sample, own) ==
    LET outcome == QueryOutcome(c, t, og, own) IN
    /\ opinionGivers' = IF outcome = "nothing to vote on" THEN opinionGivers ELSE og
    /\ IF outcome = "nothing to vote on"
       THEN /\ RoundReturn("nil", ctxs)
            /\ UNCHANGED <<tasks, queryLocals>>
       ELSE IF outcome # "dispatch"
       THEN /\ RoundReturn(outcome, ctxs)
            /\ UNCHANGED <<tasks, queryLocals>>
       ELSE /\ conflictIDs' = c
            /\ timestampIDs' = t
            /\ mana' = [own |-> own.mana, total |-> sample.total + own.mana]
            /\ voteMap' = createVoteMapForConflicts.voteMap
            /\ voteMapMu' = createVoteMapForConflicts.voteMapMu
            /\ allQueriedOpinions' = <<>>
            /\ tasks' = [g \in DOMAIN sample.sel |->
                            [selectedCount |-> sample.sel[g], state |-> "querying",
                             failed |-> FALSE]]
            /\ pc' = "waiting"
            /\ UNCHANGED <<lastRoundCompletedSuccessfully, events, roundErr,
                           everSucceeded>>

NoSample == [sel |-> EmptyMap, total |-> 0]

RoundQuery ==
    /\ pc = "query"
    /\ \E c \in Orders(IDsOfType(ctxs, "ConflictType")),
          t \in Orders(IDsOfType(ctxs, "TimestampType")),
          og \in ProviderResults, own \in OwnWeightResults :
          \E sample \in (IF Len(og.givers) = 0 THEN {NoSample}
                         ELSE ManaBasedSampling(og.givers, paras.MaxQuerySampleSize,
                                                paras.QuerySampleSize)) :
             queryOpinions(c, t, og, sample, own)
    /\ voteRet' = NoCall
    /\ UNCHANGED <<roundsAtCall, nonFPCVars>>
    /\ UNCHANGED <<queue, queueSet, ctxs, paras, env, succ, terminated>>

----------------------------------------------------------------------------
(* Round, step 5: the query goroutines *)

IndexOf(seq, x) == CHOOSE i \in DOMAIN seq : seq[i] = x

\* The opinion at the position of id in conflictIDs followed by timestampIDs.
OpinionAtPosition(id, opinions) ==
    IF id \in Range(conflictIDs) THEN opinions[IndexOf(conflictIDs, id)]
    ELSE opinions[Len(conflictIDs) + IndexOf(timestampIDs, id)]

\* The opinion the goroutine reads for id: opinions[i], i being the position of id in
\* its own list, for the conflicts and for the timestamps alike.
OpinionFor(id, opinions) ==
    IF id \in Range(conflictIDs) THEN opinions[IndexOf(conflictIDs, id)]
    ELSE opinions[IndexOf(timestampIDs, id)]

\* The two loops over conflictIDs and timestampIDs under voteMapMu.
AddVotes(vm, opinions, selectedCount) ==
    [id \in (DOMAIN vm) \cup Range(conflictIDs) \cup Range(timestampIDs) |->
        (IF id \in DOMAIN vm THEN vm[id] ELSE <<>>)
        \o (IF id \in Range(conflictIDs) \cup Range(timestampIDs)
            THEN [j \in 1 .. selectedCount |-> OpinionFor(id, opinions)]
            ELSE <<>>)]

QueriedOpinions(g, opinions, selectedCount) ==
    [OpinionGiverID |-> g,
     Opinions |-> [id \in Range(conflictIDs) \cup Range(timestampIDs) |->
                      OpinionFor(id, opinions)],
     TimesCounted |-> selectedCount]

\* The goroutine of giver g, from the return of its Query (result r) on. Once Query
\* has answered well the goroutine locks voteMapMu; it waits for ever when the mutex
\* is held, as nobody holds it who could release it. A task is marked failed when its
\* Query returned an error or a wrong number of opinions.
queryTask(g, r) ==
    IF r.err \/ Len(r.opinions) # Len(conflictIDs) + Len(timestampIDs)
    THEN /\ tasks' = [tasks EXCEPT ![g].state = "done", ![g].failed = TRUE]
         /\ UNCHANGED <<voteMap, allQueriedOpinions>>
    ELSE IF voteMapMu = "locked"
    THEN /\ tasks' = [tasks EXCEPT ![g].state = "blocked"]
         /\ UNCHANGED <<voteMap, allQueriedOpinions>>
    ELSE /\ voteMap' = AddVotes(voteMap, r.opinions, tasks[g].selectedCount)
         /\ allQueriedOpinions' =
                Append(allQueriedOpinions,
                       QueriedOpinions(g, r.opinions, tasks[g].selectedCount))
         /\ tasks' = [tasks EXCEPT ![g].state = "done"]

QueryTask(g) ==
    /\ pc = "waiting"
    /\ g \in DOMAIN tasks
    /\ tasks[g].state = "querying"
    /\ \E r \in QueryResults(Len(conflictIDs) + Len(timestampIDs)) : queryTask(g, r)
    /\ voteRet' = NoCall
    /\ UNCHANGED <<roundsAtCall, nonFPCVars>>
    /\ UNCHANGED <<queue, queueSet, ctxs, lastRoundCompletedSuccessfully, paras, env, pc,
                   conflictIDs, timestampIDs, voteMapMu, mana, opinionGivers, events,
                   roundErr, succ, terminated, everSucceeded>>

----------------------------------------------------------------------------
(* Round, step 5: the tally after wg.Wait() *)

Count(votes, opn) == Cardinality({i \in DOMAIN votes : votes[i] = opn})

\* The body of the tally loop for one id of voteMap.
Tally(voteCtx, votes) ==
    LET weighted == [voteCtx EXCEPT !.Weights = [OwnWeight |-> mana.own,
                                                 TotalWeights |-> mana.total]]
        votedCount == Len(votes) - Count(votes, "Unknown")
        likedSum == Count(votes, "Like")
    IN  IF votedCount < paras.MinOpinionsReceived THEN weighted
        ELSE [weighted EXCEPT !.ProportionLiked = <<likedSum, votedCount>>]

TallyAll(m, vm) ==
    [id \in DOMAIN m |-> IF id \in DOMAIN vm THEN Tally(m[id], vm[id]) ELSE m[id]]

RoundJoin ==
    /\ pc = "waiting"
    /\ \A g \in DOMAIN tasks : tasks[g].state = "done"
    /\ ctxs' = TallyAll(ctxs, voteMap)
    /\ RoundReturn("nil", ctxs')
    /\ conflictIDs' = <<>>
    /\ timestampIDs' = <<>>
    /\ voteMap' = EmptyMap
    /\ voteMapMu' = "unlocked"
    /\ allQueriedOpinions' = <<>>
    /\ mana' = NoMana
    /\ voteRet' = NoCall
    /\ UNCHANGED <<roundsAtCall, nonFPCVars>>
    /\ UNCHANGED <<queue, queueSet, paras, env, tasks, opinionGivers, succ, terminated>>

----------------------------------------------------------------------------
(* The engine *)

VoteCall == \E call \in VoteCalls : Vote(call[1], call[2], call[3])

QueryTasks == \E g \in GiverIDs : QueryTask(g)

\* The steps of the driver that calls Round, and of the goroutines Round starts.
RoundStep ==
    \/ RoundEnqueue
    \/ RoundForm
    \/ RoundFinalize
    \/ RoundIncrement
    \/ RoundQuery
    \/ QueryTasks
    \/ RoundJoin

Next == VoteCall \/ RoundStep

Spec == Init /\ [][Next]_vars

\* The driver keeps calling Round and the scheduler runs every goroutine that can run.
FairSpec == Spec /\ WF_vars(RoundStep)

----------------------------------------------------------------------------
(* Properties of queue admission *)

\* C1: Vote(id, ...) returns ErrVoteAlreadyOngoing when id is in the pending queue or
\* is an active context, and then leaves the pending queue, the queued-id set and the
\* active contexts unchanged; otherwise it appends exactly one new vote context for id
\* to the back of the pending queue and returns no error.
C1_VoteRejectsOngoingElseAppends ==
    [][voteRet' # NoCall =>
         LET id == voteRet'.id IN
         IF id \in QueueIDs \/ id \in DOMAIN ctxs
         THEN /\ voteRet'.err = ErrVoteAlreadyOngoing
              /\ UNCHANGED <<queue, queueSet, ctxs>>
         ELSE /\ voteRet'.err = "nil"
              /\ Len(queue') = Len(queue) + 1
              /\ SubSeq(queue', 1, Len(queue)) = queue
              /\ queue'[Len(queue')].ID = id
              /\ queue'[Len(queue')].Rounds = 0
              /\ Len(queue'[Len(queue')].Opinions) = 1
              /\ queueSet' = queueSet \cup {id}
              /\ UNCHANGED ctxs]_vars

\* A Vote call was rejected for an id that is an active context.
C1_Witness ==
    /\ voteRet.err = ErrVoteAlreadyOngoing
    /\ voteRet.id \in DOMAIN ctxs
    /\ voteRet.id \notin QueueIDs

\* C2: under every interleaving of Vote calls with the steps of Round, at most one
\* Vote call for an id succeeds between its admission and the Finalized or Failed
\* event that removes its context.
C2_AtMostOneAdmission == \A id \in IDs : succ[id] <= 1

\* A second Vote call for an admitted id was rejected while Round waits for its
\* queries.
C2_Witness ==
    /\ pc = "waiting"
    /\ voteRet.err = ErrVoteAlreadyOngoing
    /\ succ[voteRet.id] = 1

----------------------------------------------------------------------------
(* Properties of the finalize step *)

\* Events triggered by the step.
NewEvents == events' \ events

EventsOf(es, type, id) == {e \in es : e.type = type /\ e.id = id}

\* The last TotalRoundsFinalization opinions are all equal and were formed after the
\* cooling-off period.
HeldOpinion(voteCtx) ==
    LET opinions == voteCtx.Opinions
        held == paras.TotalRoundsFinalization
    IN  /\ Len(opinions) - 1 >= paras.TotalRoundsCoolingOffPeriod + held
        /\ \A i, j \in (Len(opinions) - held + 1) .. Len(opinions) :
               opinions[i] = opinions[j]

\* C3: in the finalize step every active context whose last TotalRoundsFinalization
\* opinions (after the cooling-off period) are all equal is removed with a Finalized
\* event carrying its last opinion; every other active context with
\* Rounds >= MaxRoundsPerVoteContext is removed with a Failed event; no context gets
\* both events, and every other context stays active.
C3_FinalizeStep ==
    [][(pc = "finalize" /\ pc' = "increment") =>
         \A id \in DOMAIN ctxs :
            LET voteCtx == ctxs[id]
                finalized == EventsOf(NewEvents, "Finalized", id)
                failed == EventsOf(NewEvents, "Failed", id)
            IN  IF HeldOpinion(voteCtx)
                THEN /\ id \notin DOMAIN ctxs'
                     /\ finalized = {OpinionEvent("Finalized", voteCtx)}
                     /\ \A e \in finalized :
                           e.opinion = voteCtx.Opinions[Len(voteCtx.Opinions)]
                     /\ failed = {}
                ELSE IF voteCtx.Rounds >= paras.MaxRoundsPerVoteContext
                THEN /\ id \notin DOMAIN ctxs'
                     /\ failed = {OpinionEvent("Failed", voteCtx)}
                     /\ finalized = {}
                ELSE /\ id \in DOMAIN ctxs'
                     /\ ctxs'[id] = voteCtx
                     /\ finalized = {} /\ failed = {}]_vars

\* The finalize step has removed a context that held its opinion while it had
\* already reached MaxRoundsPerVoteContext: Finalized was triggered, not Failed.
C3_Witness ==
    \E e \in events :
        /\ e.type = "Finalized"
        /\ e.rounds >= paras.MaxRoundsPerVoteContext
        /\ e.id \notin DOMAIN ctxs

\* C4 as claimed: once a Finalized or Failed event has been emitted for an id, no
\* later Finalized, Failed or RoundExecuted event mentions that id.
C4_NoEventAfterFinalOne ==
    [][\A e \in NewEvents : e.id \notin terminated /\ e.ids \cap terminated = {}]_vars

\* C4 as amended: once a Finalized or Failed event has been emitted for an id, no
\* later Finalized, Failed or RoundExecuted event mentions that id until a later
\* Vote call for that id succeeds.
C4_NoEventUntilVotedAgain ==
    [][\A e \in NewEvents :
          \A id \in terminated : succ[id] = 0 => (e.id # id /\ id \notin e.ids)]_vars

\* After the final event of A, a round was executed for B alone.
C4_Witness ==
    /\ "A" \in terminated
    /\ succ["A"] = 0
    /\ \E e \in events : e.type = "RoundExecuted" /\ e.ids = {"B"}

----------------------------------------------------------------------------
(* Properties of Round *)

\* Scenario 1: Vote("A", Conflict, Like) is pending for an engine built with the
\* scenario's parameters, whose opinion givers answer Like to every query.
C5_Scenario ==
    /\ paras = ScenarioParameters
    /\ env = "like"
    /\ pc = "idle"
    /\ \E i \in DOMAIN queue : queue[i].ID = "A" /\ queue[i].Opinions = <<"Like">>

\* Finalized(A, Like) is triggered in the 4th Round call after the Vote call: the
\* context has been through three rounds.
C5_FinalizedInFourthRound ==
    \E e \in events :
        e.type = "Finalized" /\ e.id = "A" /\ e.opinion = "Like" /\ e.rounds = 3

\* C5: with cooling-off 0, TotalRoundsFinalization 3, MaxRoundsPerVoteContext 10,
\* first-round bounds [0.67, 0.67] and subsequent bounds [0.5, 0.5], after
\* Vote("A", Conflict, Like) and with opinion givers that answer Like to every query,
\* Finalized(A, Like) is emitted during the 4th Round call and not during an earlier
\* one.
C5_ScenarioFinalizesInFourthRound ==
    /\ C5_Scenario ~> C5_FinalizedInFourthRound
    /\ [](paras = ScenarioParameters /\ env = "like" =>
            \A e \in events : (e.type = "Finalized" /\ e.id = "A") => e.rounds >= 3)

\* C6: every Round call returns: once every dispatched Query call has returned, with
\* opinions or with an error, all query tasks of the fan-out are complete, none of
\* them waits for the vote-map mutex, and the join can finish.
C6_FanOutCompletes ==
    (pc = "waiting" /\ \A g \in DOMAIN tasks : tasks[g].state # "querying")
        => \A g \in DOMAIN tasks : tasks[g].state = "done"

\* C7: if the query phase of a Round call fails, the next Round call appends no
\* opinion to any active context, also when an earlier Round call had succeeded.
C7_NoOpinionFormedAfterFailedRound ==
    [][(roundErr \in RoundErrors) =>
         \A id \in (DOMAIN ctxs) \cap (DOMAIN ctxs') :
             Len(ctxs'[id].Opinions) = Len(ctxs[id].Opinions)]_vars

\* C8: while the query phase fails in every Round call, an active context is removed
\* with a Failed event by the Round call that finds it with
\* Rounds >= MaxRoundsPerVoteContext, so between two Round calls no active context
\* has more rounds than that.
C8_FailedOnceMaxRoundsReached ==
    (pc = "idle" /\ ~everSucceeded)
        => \A id \in DOMAIN ctxs : ctxs[id].Rounds <= paras.MaxRoundsPerVoteContext

ErrorEvent(err) ==
    [type |-> "Error", id |-> "-", opinion |-> err, rounds |-> 0, ids |-> {}]

\* C9: whenever a Round call ends with an FPC-level error, an Error event carrying
\* that error has been emitted, lastRoundCompletedSuccessfully is false when Round
\* returns, and no RoundExecuted event was emitted for that Round call.
C9_FailedRoundReportsError ==
    (pc = "idle" /\ roundErr \in RoundErrors)
        => /\ ErrorEvent(roundErr) \in events
           /\ ~lastRoundCompletedSuccessfully
           /\ \A e \in events : e.type # "RoundExecuted"

\* The provider was called in this step and returned no opinion giver.
ProviderReturnsNone ==
    /\ pc = "query"
    /\ opinionGivers = NoProviderCall
    /\ opinionGivers' = [err |-> "nil", givers |-> <<>>]

\* C10: a Round call with at least one active context whose provider returns an empty
\* set of opinion givers returns ErrNoOpinionGiversAvailable, sends no query, and
\* changes no context's ProportionLiked or Weights.
C10_NoGiversNoQuery ==
    [][(ProviderReturnsNone /\ DOMAIN ctxs # {}) =>
         /\ pc' = "idle"
         /\ roundErr' = ErrNoOpinionGiversAvailable
         /\ tasks' = EmptyMap
         /\ DOMAIN ctxs' = DOMAIN ctxs
         /\ \A id \in DOMAIN ctxs :
               /\ ctxs'[id].ProportionLiked = ctxs[id].ProportionLiked
               /\ ctxs'[id].Weights = ctxs[id].Weights]_vars

\* A Round call over two active contexts has returned after its provider had
\* returned no opinion giver.
C10_Witness ==
    /\ pc = "idle"
    /\ opinionGivers = [err |-> "nil", givers |-> <<>>]
    /\ DOMAIN ctxs = {"A", "B"}
    /\ roundErr = ErrNoOpinionGiversAvailable

----------------------------------------------------------------------------
(* Properties of the query fan-out *)

\* The Query of giver g has returned in this step with an error or with a wrong number
\* of opinions.
QueryFailsNow(g) ==
    /\ g \in DOMAIN tasks /\ g \in DOMAIN tasks'
    /\ tasks[g].state = "querying"
    /\ tasks'[g].failed

\* Round has returned no error and has triggered RoundExecuted.
RoundSucceeded ==
    /\ pc = "idle"
    /\ roundErr = "nil"
    /\ \E e \in events : e.type = "RoundExecuted"

\* C11: a queried giver that returns an error, or a number of opinions different from
\* len(conflictIDs)+len(timestampIDs), contributes no vote to any subject's tally and
\* no entry to the queried opinions, and the Round still succeeds: it returns no error
\* and emits RoundExecuted, even when every queried giver fails.
C11_FailedGiverDroppedRoundSucceeds ==
    /\ [][\A g \in GiverIDs : QueryFailsNow(g) => UNCHANGED <<voteMap, allQueriedOpinions>>]_vars
    /\ (pc = "waiting" /\ \E g \in DOMAIN tasks : tasks[g].failed) ~> RoundSucceeded

\* C12: for every context that is active before a Round call and still active after
\* it, Rounds after the call equals Rounds before the call plus exactly 1, whether or
\* not opinion forming ran and whether or not the query phase succeeded.
C12_RoundsGrowByOnePerCall ==
    (pc = "idle" /\ roundErr # "none")
        => \A id \in (DOMAIN roundsAtCall) \cap (DOMAIN ctxs) :
               ctxs[id].Rounds = roundsAtCall[id] + 1

\* A Round call that formed no opinion and whose query phase failed has returned, and
\* a context that was active before it has gone from one round to two.
C12_Witness ==
    /\ pc = "idle"
    /\ ~lastRoundCompletedSuccessfully
    /\ roundErr \in RoundErrors
    /\ \E id \in (DOMAIN roundsAtCall) \cap (DOMAIN ctxs) :
          roundsAtCall[id] = 1 /\ ctxs[id].Rounds = 2

----------------------------------------------------------------------------
(* Sampling of opinion givers, called on its own *)

\* Largest QuerySampleSize of the sampling calls; MaxQuerySampleSize goes one beyond.
SampleSizeBound == 3

\* Largest pool of opinion givers of the sampling calls.
PoolBound == 3

\* Mana of a giver, in thousandths: none, the tolerance itself, one unit.
PoolManas == {0, 1, 1000}

\* The pools: the giver at position i has the id i.
Pools ==
    UNION {{[i \in 1 .. n |-> Giver(i, ms[i])] : ms \in [1 .. n -> PoolManas]} :
           n \in 1 .. PoolBound}

SamplingCalls ==
    {[fn |-> f, opinionGivers |-> g, maxQuerySampleSize |-> mx, querySampleSize |-> q] :
        f \in {"ManaBasedSampling", "UniformSampling"}, g \in Pools,
        mx \in 1 .. SampleSizeBound + 1, q \in 1 .. SampleSizeBound}

SamplingInit ==
    /\ NewFPC(<<ScenarioParameters, "like">>)
    /\ fnCall \in SamplingCalls
    /\ fnResult = NoResult
    /\ txn = NoTransaction
    /\ idCalls = EmptyMap
    /\ callStack = <<>>
    /\ NoQueue
    /\ NoGoroutines

CallManaBasedSampling ==
    /\ fnCall.fn = "ManaBasedSampling"
    /\ fnResult = NoResult
    /\ fnResult' \in ManaBasedSampling(fnCall.opinionGivers, fnCall.maxQuerySampleSize,
                                       fnCall.querySampleSize)
    /\ UNCHANGED <<fpcVars, fnCall, txn, idCalls, callStack, queueVars, concurrentVars>>

CallUniformSampling ==
    /\ fnCall.fn = "UniformSampling"
    /\ fnResult = NoResult
    /\ \E u \in UniformSampling(fnCall.opinionGivers, fnCall.maxQuerySampleSize,
                                fnCall.querySampleSize) :
          fnResult' = [sel |-> u, total |-> 0]
    /\ UNCHANGED <<fpcVars, fnCall, txn, idCalls, callStack, queueVars, concurrentVars>>

SamplingNext == CallManaBasedSampling \/ CallUniformSampling

SamplingSpec == SamplingInit /\ [][SamplingNext]_vars

RECURSIVE SelectionTotal(_)
\* The sum of the selection counts of a sample.
SelectionTotal(sel) ==
    IF DOMAIN sel = {} THEN 0
    ELSE LET g == CHOOSE x \in DOMAIN sel : TRUE
         IN  sel[g] + SelectionTotal([x \in (DOMAIN sel) \ {g} |-> sel[x]])

Sampled == fnCall.fn \in {"ManaBasedSampling", "UniformSampling"} /\ fnResult # NoResult

\* The call took the mana-weighted path: the total mana is above the tolerance.
ManaPath ==
    /\ fnCall.fn = "ManaBasedSampling"
    /\ SumMana(fnCall.opinionGivers) > toleranceTotalMana

\* C13 as claimed: for every sampling call, the sum of the selection counts over the
\* returned givers equals QuerySampleSize, in the mana-weighted path as well as in the
\* uniform path, and is lower only if the giver pool has fewer than QuerySampleSize
\* givers.
C13_TotalIsQuerySampleSize ==
    Sampled =>
        \/ SelectionTotal(fnResult.sel) = fnCall.querySampleSize
        \/ /\ SelectionTotal(fnResult.sel) < fnCall.querySampleSize
           /\ Len(fnCall.opinionGivers) < fnCall.querySampleSize

\* C13 as amended: in the uniform path the sum of the selection counts equals
\* QuerySampleSize whatever the size of the pool; in the mana-weighted path at most
\* QuerySampleSize distinct givers are returned and the sum is the number of draws
\* made, which is at most MaxQuerySampleSize and is MaxQuerySampleSize unless
\* QuerySampleSize distinct givers were selected.
C13_TotalIsNumberOfDraws ==
    Sampled =>
        LET total == SelectionTotal(fnResult.sel)
            distinct == Cardinality(DOMAIN fnResult.sel)
        IN  IF ManaPath
            THEN /\ distinct <= fnCall.querySampleSize
                 /\ total <= fnCall.maxQuerySampleSize
                 /\ total = fnCall.maxQuerySampleSize \/ distinct = fnCall.querySampleSize
                 /\ \A g \in DOMAIN fnResult.sel : fnResult.sel[g] >= 1
            ELSE total = fnCall.querySampleSize

\* The mana-weighted path has drawn one giver twice before it had two distinct ones:
\* three selections for a QuerySampleSize of 2.
C13_Witness ==
    /\ Sampled
    /\ ManaPath
    /\ fnCall.querySampleSize = 2
    /\ SelectionTotal(fnResult.sel) = 3
    /\ Cardinality(DOMAIN fnResult.sel) = 2

\* ---------------------------------------------------------------------------------
\* UTXO collections: packages/transaction_wrapped/input.go
\* ---------------------------------------------------------------------------------
\* Byte strings are sequences of naturals below 256.  The model shortens the fixed
\* widths (a 32-byte digest is one byte, a uint64 two bytes, a uint16 count one
\* byte) and keeps the order of the fields and the byte order within a field.

\* The longest argument list handed to NewInputs or NewOutputs.
ArgumentsBound == 3

MinOutputCount == 1

MaxOutputCount == 127

UTXOInputType == 0

SigLockedSingleOutputType == 0

ED25519AddressType == 0

\* The zero value of OutputID: the Id of an output that is not yet part of a booked
\* transaction.
EmptyOutputID == <<0, 0>>

\* OutputID.Bytes(): the transaction id followed by the output index.
OutputIDBytes(id) == id

\* WriteUint64 of marshalutil: little endian, the low byte first.
WriteUint64(n) == <<n % 256, n \div 256>>

\* Address.Bytes(): the type byte followed by the digest.
AddressBytes(a) == <<a.Type, a.Digest>>

UTXOInput(referencedOutputID) == [ReferencedOutputID |-> referencedOutputID]

NewSigLockedSingleOutput(balance, address) ==
    [Id |-> EmptyOutputID, Balance |-> balance, Address |-> address]

SetID(output, outputID) == [output EXCEPT !.Id = outputID]

\* The mutant of SigLockedSingleOutputBytes: the balance is written high byte first.
SigLockedSingleOutputBytesBigEndian(s) ==
    <<SigLockedSingleOutputType, s.Balance \div 256, s.Balance % 256>> \o AddressBytes(s.Address)

\* SigLockedSingleOutput.Bytes() is ObjectStorageValue(): type, balance, address.
\* The Id of the output is not part of it.
SigLockedSingleOutputBytes(s) ==
    <<SigLockedSingleOutputType>> \o WriteUint64(s.Balance) \o AddressBytes(s.Address)

\* registry.Manager.Serialize of an Input: the type tag followed by the body.
SerializeInput(input) == <<UTXOInputType>> \o OutputIDBytes(input.ReferencedOutputID)

RECURSIVE BytesLess(_, _)
\* bytes.Compare(a, b) < 0
BytesLess(a, b) ==
    IF b = <<>> THEN FALSE
    ELSE IF a = <<>> THEN TRUE
    ELSE IF a[1] # b[1] THEN a[1] < b[1]
    ELSE BytesLess(Tail(a), Tail(b))

\* Each element together with its marshaled form.
Marshaled(elements, Marshal(_)) ==
    [i \in 1..Len(elements) |-> [element |-> elements[i], serialized |-> Marshal(elements[i])]]

\* The mutant of FilterDuplicates: nothing is skipped.
FilterNothing(ms) == ms

RECURSIVE FilterDuplicates(_)
\* The first loop of NewInputs and NewOutputs: an element is skipped if an earlier
\* element has the same marshaled form.
FilterDuplicates(ms) ==
    IF ms = <<>> THEN <<>>
    ELSE LET seen == FilterDuplicates(SubSeq(ms, 1, Len(ms) - 1))
             last == ms[Len(ms)]
         IN  IF \E i \in 1..Len(seen) : seen[i].serialized = last.serialized
             THEN seen
             ELSE Append(seen, last)

RECURSIVE SortSlice(_)
\* sort.Slice by bytes.Compare of the marshaled forms.  The marshaled forms are
\* pairwise different after FilterDuplicates, so the order is unique.
SortSlice(ms) ==
    IF ms = <<>> THEN <<>>
    ELSE LET first == CHOOSE i \in 1..Len(ms) :
                          \A j \in 1..Len(ms) :
                              ~BytesLess(ms[j].serialized, ms[i].serialized)
         IN  <<ms[first]>> \o
             SortSlice([k \in 1..(Len(ms) - 1) |-> IF k < first THEN ms[k] ELSE ms[k + 1]])

Elements(ms) == [i \in 1..Len(ms) |-> ms[i].element]

NewInputs(optionalInputs) ==
    [panic |-> FALSE,
     elements |-> Elements(SortSlice(FilterDuplicates(Marshaled(optionalInputs, SerializeInput))))]

NewOutputs(optionalOutputs) ==
    LET outputs == Elements(SortSlice(FilterDuplicates(
                       Marshaled(optionalOutputs, SigLockedSingleOutputBytes))))
    IN  IF Len(outputs) < MinOutputCount \/ Len(outputs) > MaxOutputCount
        THEN [panic |-> TRUE]
        ELSE [panic |-> FALSE, elements |-> outputs]

\* ---------------------------------------------------------------------------------
\* Transactions: packages/transaction_wrapped/transaction.go (the registry-driven copy)
\* ---------------------------------------------------------------------------------

\* The empty cache slot of a Transaction (Id == nil).
NilID == [nil |-> TRUE]

\* blake2b.Sum256: a digest that determines its input.
Blake2b(bytes) == [blake2b |-> bytes]

\* No payload (a nil payload.Payload); a payload is its bytes.
NoPayload == <<>>

NewTransactionEssence(version, timestamp, accessPledgeID, consensusPledgeID, inputs, outputs) ==
    [Version |-> version, Timestamp |-> timestamp, AccessPledgeID |-> accessPledgeID,
     ConsensusPledgeID |-> consensusPledgeID, Inputs |-> inputs, Outputs |-> outputs,
     Payload |-> NoPayload]

SetPayload(essence, p) == [essence EXCEPT !.Payload = p]

NewTransaction(essence, unlockBlocks) ==
    [Id |-> NilID, Essence |-> essence, UnlockBlocks |-> unlockBlocks]

RECURSIVE Concat(_)
Concat(seqs) == IF seqs = <<>> THEN <<>> ELSE Head(seqs) \o Concat(Tail(seqs))

\* The registry serialization of a collection: the count, then tag and body of each
\* element.
SerializeInputs(inputs) ==
    <<Len(inputs)>> \o Concat([i \in 1..Len(inputs) |-> SerializeInput(inputs[i])])

SerializeOutputs(outputs) ==
    <<Len(outputs)>> \o Concat([i \in 1..Len(outputs) |-> SigLockedSingleOutputBytes(outputs[i])])

\* An unlock block: the tag of the signature unlock block (0), then the signature.
SerializeUnlockBlocks(blocks) ==
    <<Len(blocks)>> \o Concat([i \in 1..Len(blocks) |-> <<0, blocks[i].Signature>>])

\* The optional payload: a presence byte, then the payload.
SerializePayload(p) == IF p = NoPayload THEN <<0>> ELSE <<1>> \o p

SerializeEssence(e) ==
    <<e.Version, e.Timestamp, e.AccessPledgeID, e.ConsensusPledgeID>> \o
    SerializeInputs(e.Inputs) \o SerializeOutputs(e.Outputs) \o SerializePayload(e.Payload)

\* registry.Manager.Serialize(t): the essence, then the unlock blocks.  The cached
\* Id and the idMutex are not written.
SerializeTransaction(t) == SerializeEssence(t.Essence) \o SerializeUnlockBlocks(t.UnlockBlocks)

\* The value Transaction.ID() computes: the digest of the serialized transaction.
ComputeID(t) == Blake2b(SerializeTransaction(t))

\* The sequences over S of length at most n.
SeqsUpTo(S, n) == UNION {[1..k -> S] : k \in 0..n}

OutputIDs == {<<1, 0>>, <<1, 1>>, <<2, 0>>}

Addresses == {[Type |-> ED25519AddressType, Digest |-> d] : d \in {1, 2}}

\* 256 is the balance whose low byte is 0: its bytes sort before those of 1.
OutputBalances == {1, 256}

\* Outputs as a transaction under construction holds them: no Id yet.
NewOutputValues == {NewSigLockedSingleOutput(b, a) : b \in OutputBalances, a \in Addresses}

\* Outputs as the ledger holds them (OutputsByID): the Id is set.
BookedOutputValues == {SetID(o, id) : o \in NewOutputValues, id \in {<<1, 0>>, <<1, 1>>}}

InputValues == {UTXOInput(id) : id \in OutputIDs}

InputCollections ==
    {NewInputs(args).elements : args \in SeqsUpTo(InputValues, ArgumentsBound)} \ {<<>>}

OutputCollections ==
    {NewOutputs(args).elements : args \in SeqsUpTo(NewOutputValues, ArgumentsBound) \ {<<>>}}

\* One signature unlock block for each input.
UnlockBlocksFor(inputs) == [i \in 1..Len(inputs) |-> [Signature |-> 5]]

\* The transactions of the model: built by NewTransactionEssence, SetPayload and
\* NewTransaction from canonical collections.
Transactions ==
    {NewTransaction(SetPayload(NewTransactionEssence(0, ts, 1, 1, ins, outs), p),
                    UnlockBlocksFor(ins)) :
        ts \in {1, 2}, ins \in InputCollections, outs \in OutputCollections,
        p \in {NoPayload, <<7>>}}

\* The transactions with one input and one output (singleInputTransaction).
SingleTransfers ==
    {t \in Transactions : Len(t.Essence.Inputs) = 1 /\ Len(t.Essence.Outputs) = 1}

\* ---------------------------------------------------------------------------------
\* Transaction.ID(): transaction.go, lines 126-154
\* ---------------------------------------------------------------------------------

\* The goroutines that call ID() on one transaction, and the calls each of them makes.
CallersBound == 2

CallsBound == 2

Callers == 1..CallersBound

\* An idMutex nobody holds.
Unlocked == [readers |-> 0, writer |-> FALSE]

IDInit ==
    /\ NewFPC(<<ScenarioParameters, "like">>)
    /\ fnCall = NoFunction
    /\ fnResult = NoResult
    /\ \E t \in SingleTransfers :
          txn = [Id |-> t.Id, idMutex |-> Unlocked,
                 Essence |-> t.Essence, UnlockBlocks |-> t.UnlockBlocks]
    /\ idCalls = [g \in Callers |->
                    [pc |-> "idle", calls |-> 0, ret |-> NilID,
                     computed |-> FALSE, later |-> FALSE]]
    /\ callStack = <<>>
    /\ NoQueue
    /\ NoGoroutines

\* t.transactionInner.idMutex.RLock(), the first statement of a call.  `later` notes
\* that some call on the transaction has returned before this one began.
IDRLock(g) ==
    /\ idCalls[g].pc \in {"idle", "returned"}
    /\ idCalls[g].calls < CallsBound
    /\ ~txn.idMutex.writer
    /\ txn' = [txn EXCEPT !.idMutex.readers = @ + 1]
    /\ idCalls' = [idCalls EXCEPT ![g].pc = "rlocked",
                                  ![g].computed = FALSE,
                                  ![g].later = \E h \in Callers : idCalls[h].calls > 0]
    /\ UNCHANGED <<fpcVars, fnCall, fnResult, callStack, queueVars, concurrentVars>>

\* The first check, under the read lock: a filled slot is returned (the deferred
\* RUnlock runs), an empty slot leads to RUnlock and on to the exclusive lock.
IDFirstCheck(g) ==
    /\ idCalls[g].pc = "rlocked"
    /\ txn' = [txn EXCEPT !.idMutex.readers = @ - 1]
    /\ IF txn.Id # NilID
       THEN idCalls' = [idCalls EXCEPT ![g].pc = "returned", ![g].ret = txn.Id,
                                       ![g].calls = @ + 1]
       ELSE idCalls' = [idCalls EXCEPT ![g].pc = "runlocked"]
    /\ UNCHANGED <<fpcVars, fnCall, fnResult, callStack, queueVars, concurrentVars>>

\* t.idMutex.Lock()
IDLock(g) ==
    /\ idCalls[g].pc = "runlocked"
    /\ txn.idMutex.readers = 0
    /\ ~txn.idMutex.writer
    /\ txn' = [txn EXCEPT !.idMutex.writer = TRUE]
    /\ idCalls' = [idCalls EXCEPT ![g].pc = "locked"]
    /\ UNCHANGED <<fpcVars, fnCall, fnResult, callStack, queueVars, concurrentVars>>

\* The slot if the computed ID were published (t.transactionInner.Id = &txID).
IDSlotStored(t, id) == id

\* The slot after the computation: `return txID` ends the call and no statement
\* assigns t.transactionInner.Id, so the slot keeps its value.
IDSlot(t, id) == t.Id

\* The second check and the computation, under the exclusive lock; the deferred
\* Unlock runs at the return.
IDCompute(g) ==
    /\ idCalls[g].pc = "locked"
    /\ IF txn.Id # NilID
       THEN /\ idCalls' = [idCalls EXCEPT ![g].pc = "returned", ![g].ret = txn.Id,
                                          ![g].calls = @ + 1]
            /\ txn' = [txn EXCEPT !.idMutex.writer = FALSE]
       ELSE LET txID == ComputeID(txn)
            IN  /\ idCalls' = [idCalls EXCEPT ![g].pc = "returned", ![g].ret = txID,
                                              ![g].calls = @ + 1, ![g].computed = TRUE]
                /\ txn' = [txn EXCEPT !.idMutex.writer = FALSE, !.Id = IDSlot(txn, txID)]
    /\ UNCHANGED <<fpcVars, fnCall, fnResult, callStack, queueVars, concurrentVars>>

IDNext ==
    \E g \in Callers : IDRLock(g) \/ IDFirstCheck(g) \/ IDLock(g) \/ IDCompute(g)

IDSpec == IDInit /\ [][IDNext]_vars

Returned(g) == idCalls[g].pc = "returned"

\* C14 as claimed: Transaction.ID() is lazy with double-checked locking.  A call that
\* found the slot empty and computed the ID has stored it in the slot; a call that
\* began after another call had returned did not compute; and all callers of ID() on
\* the transaction have the same value.
C14_IDComputedOnceAndCached ==
    /\ \A g \in Callers : (Returned(g) /\ idCalls[g].computed) => txn.Id = idCalls[g].ret
    /\ \A g \in Callers : (Returned(g) /\ idCalls[g].later) => ~idCalls[g].computed
    /\ \A g, h \in Callers : (Returned(g) /\ Returned(h)) => idCalls[g].ret = idCalls[h].ret

\* ---------------------------------------------------------------------------------
\* The serialization round trip: color.go, TestTransaction_Serialization
\* ---------------------------------------------------------------------------------

\* ReadUint64, the inverse of WriteUint64.
ReadUint64(low, high) == low + 256 * high

\* registry.Manager.Deserialize into an empty Transaction: the fields are read back
\* in the order SerializeTransaction wrote them.  What the bytes do not hold keeps
\* its zero value: the cached Id of the transaction and the Ids of its outputs.
DeserializeTransaction(b) ==
    LET nIn      == b[5]
        in(i)    == 5 + 3 * (i - 1)
        inputs   == [i \in 1..nIn |-> UTXOInput(<<b[in(i) + 2], b[in(i) + 3]>>)]
        o0       == 5 + 3 * nIn
        nOut     == b[o0 + 1]
        out(i)   == o0 + 1 + 5 * (i - 1)
        outputs  == [i \in 1..nOut |->
                        NewSigLockedSingleOutput(
                            ReadUint64(b[out(i) + 2], b[out(i) + 3]),
                            [Type |-> b[out(i) + 4], Digest |-> b[out(i) + 5]])]
        p0       == o0 + 1 + 5 * nOut
        payload  == SubSeq(b, p0 + 2, p0 + 1 + b[p0 + 1])
        u0       == p0 + 1 + b[p0 + 1]
        unlocks  == [i \in 1..b[u0 + 1] |-> [Signature |-> b[u0 + 1 + 2 * i]]]
    IN  NewTransaction(
            SetPayload(NewTransactionEssence(b[1], b[2], b[3], b[4], inputs, outputs), payload),
            unlocks)

\* The value a call of ID() returns when no other call interferes.
TransactionID(t) == IF t.Id # NilID THEN t.Id ELSE ComputeID(t)

SerializationCalls == {[fn |-> "Serialization", tx |-> t] : t \in Transactions}

\* The body of the test: serialize tx, deserialize into otherTx, take both IDs.
CallSerialization ==
    /\ fnCall.fn = "Serialization"
    /\ fnResult = NoResult
    /\ LET serializedBytes == SerializeTransaction(fnCall.tx)
           otherTx == DeserializeTransaction(serializedBytes)
       IN  fnResult' = [returned |-> TRUE, otherTx |-> otherTx,
                        id |-> TransactionID(fnCall.tx), otherID |-> TransactionID(otherTx)]
    /\ UNCHANGED <<fpcVars, fnCall, txn, idCalls, callStack, queueVars, concurrentVars>>

RoundTripDone == fnCall.fn = "Serialization" /\ fnResult # NoResult

CollectionCalls ==
    {[fn |-> "NewOutputs", args |-> a] :
        a \in SeqsUpTo(NewOutputValues \cup BookedOutputValues, ArgumentsBound)}
    \cup
    {[fn |-> "NewInputs", args |-> a] : a \in SeqsUpTo(InputValues, ArgumentsBound)}

CallNewOutputs ==
    /\ fnCall.fn = "NewOutputs"
    /\ fnResult = NoResult
    /\ LET outputs == NewOutputs(fnCall.args)
       IN  fnResult' = IF outputs.panic
                       THEN [returned |-> TRUE, panic |-> TRUE]
                       ELSE [returned |-> TRUE, panic |-> FALSE, elements |-> outputs.elements]
    /\ UNCHANGED <<fpcVars, fnCall, txn, idCalls, callStack, queueVars, concurrentVars>>

CallNewInputs ==
    /\ fnCall.fn = "NewInputs"
    /\ fnResult = NoResult
    /\ fnResult' = [returned |-> TRUE, panic |-> FALSE,
                    elements |-> NewInputs(fnCall.args).elements]
    /\ UNCHANGED <<fpcVars, fnCall, txn, idCalls, callStack, queueVars, concurrentVars>>

Collected == fnCall.fn \in {"NewOutputs", "NewInputs"} /\ fnResult # NoResult

\* The function of the call, applied to another argument list.
Collect(args) == IF fnCall.fn = "NewOutputs" THEN NewOutputs(args) ELSE NewInputs(args)

\* The serialized bytes the function of the call compares its elements by.
ElementBytes(e) ==
    IF fnCall.fn = "NewOutputs" THEN SigLockedSingleOutputBytes(e) ELSE SerializeInput(e)

BytesOf(elements) == [i \in 1..Len(elements) |-> ElementBytes(elements[i])]

Reorderings(s) ==
    {[i \in 1..Len(s) |-> s[f[i]]] :
        f \in {g \in [1..Len(s) -> 1..Len(s)] : \A i, j \in 1..Len(s) : g[i] = g[j] => i = j}}

StrictlyAscending(bs) == \A i \in 1..(Len(bs) - 1) : BytesLess(bs[i], bs[i + 1])

\* Every serialized form among the arguments is the form of exactly one element.
EachOnce(args, elements) ==
    /\ \A i \in 1..Len(args) :
          Cardinality({k \in 1..Len(elements) :
                          ElementBytes(elements[k]) = ElementBytes(args[i])}) = 1
    /\ \A k \in 1..Len(elements) : \E i \in 1..Len(args) : elements[k] = args[i]

\* C16 as claimed: NewOutputs and NewInputs return a canonical sequence.  For every
\* argument list the call returns a sequence, every permutation of the list gives the
\* same sequence, the sequence is strictly ascending by the serialized bytes of its
\* elements, and byte-identical duplicates appear exactly once.
C16_CanonicalSequence ==
    Collected =>
        /\ ~fnResult.panic
        /\ \A p \in Reorderings(fnCall.args) :
              ~Collect(p).panic /\ Collect(p).elements = fnResult.elements
        /\ StrictlyAscending(BytesOf(fnResult.elements))
        /\ EachOnce(fnCall.args, fnResult.elements)

DistinctBytes(args) == {ElementBytes(args[i]) : i \in 1..Len(args)}

\* C16 as amended: the sequence of serialized bytes is canonical.  NewInputs returns
\* for every argument list; NewOutputs returns if the list has between MinOutputCount
\* and MaxOutputCount byte-different elements and panics otherwise, for every
\* permutation alike.  When the call returns, every permutation of the list gives a
\* sequence with the same serialized bytes, strictly ascending, each serialized form
\* once.  Of byte-identical arguments the first in the list is the one kept, so the
\* elements (the Ids of outputs) may differ between permutations; for NewInputs, whose
\* serialized form holds the whole element, the sequences are equal.
C16_CanonicalBytes ==
    Collected =>
        LET n == Cardinality(DistinctBytes(fnCall.args))
            mayReturn == fnCall.fn = "NewInputs" \/ (MinOutputCount <= n /\ n <= MaxOutputCount)
        IN  /\ fnResult.panic = ~mayReturn
            /\ \A p \in Reorderings(fnCall.args) : Collect(p).panic = fnResult.panic
            /\ ~fnResult.panic =>
                  /\ \A p \in Reorderings(fnCall.args) :
                        /\ BytesOf(Collect(p).elements) = BytesOf(fnResult.elements)
                        /\ fnCall.fn = "NewInputs" => Collect(p).elements = fnResult.elements
                  /\ StrictlyAscending(BytesOf(fnResult.elements))
                  /\ EachOnce(fnCall.args, fnResult.elements)
                  /\ \A k \in 1..Len(fnResult.elements) :
                        LET first == CHOOSE i \in 1..Len(fnCall.args) :
                                        /\ ElementBytes(fnCall.args[i]) =
                                           ElementBytes(fnResult.elements[k])
                                        /\ \A j \in 1..(i - 1) :
                                              ElementBytes(fnCall.args[j]) #
                                              ElementBytes(fnResult.elements[k])
                        IN  fnResult.elements[k] = fnCall.args[first]

\* NewOutputs was handed, out of order, two booked outputs with the same bytes and
\* different Ids and a third output: it returned two outputs, the first-named of the
\* twins among them.
C16_Witness ==
    /\ Collected
    /\ fnCall.fn = "NewOutputs"
    /\ Len(fnCall.args) = 3
    /\ ~fnResult.panic
    /\ Len(fnResult.elements) = 2
    /\ \E i, j \in 1..3 :
          /\ i < j
          /\ fnCall.args[i].Id # fnCall.args[j].Id
          /\ ElementBytes(fnCall.args[i]) = ElementBytes(fnCall.args[j])
          /\ fnResult.elements[2] = fnCall.args[i]
    /\ fnResult.elements[1] = fnCall.args[3]

\* ---------------------------------------------------------------------------------
\* Alias outputs: packages/transaction_wrapped/input.go, AliasOutput
\* ---------------------------------------------------------------------------------
\* Addresses and byte fields are names; "nil" is the nil Address, NilAliasAddress the
\* AliasAddress with the all-zero digest.  A time is a natural number and 0 is the
\* zero time.Time.  A uint32 is the pair of its high and low 16 bits.

DustThresholdAliasOutputIOTA == 100

NilAliasAddress == "alias-nil"

\* NewAliasAddress: the digest of the seed, here the OutputID of the minting output.
NewAliasAddress(outputID) == "alias-of-" \o outputID

MaxUint32 == <<65535, 65535>>

Uint32(n) == <<0, n>>

\* x + 1 in uint32 arithmetic: the largest value is followed by 0.
Uint32Add1(x) ==
    IF x[2] < 65535 THEN <<x[1], x[2] + 1>>
    ELSE IF x[1] < 65535 THEN <<x[1] + 1, 0>>
    ELSE <<0, 0>>

\* time.Time.IsZero and t.After(u)
IsZero(t) == t = 0

After(t, u) == t > u

\* ColoredBalances.Get
HasColor(b, col) == col \in DOMAIN b

GetColor(b, col) == IF col \in DOMAIN b THEN b[col] ELSE 0

IsOrigin(a) == a.IsOrigin

IsDelegated(a) == a.IsDelegated

IsSelfGoverned(a) == a.GoverningAddress = "nil"

GetGoverningAddress(a) == IF IsSelfGoverned(a) THEN a.StateAddress ELSE a.GoverningAddress

GetAliasAddress(a) ==
    IF a.AliasAddress = NilAliasAddress THEN NewAliasAddress(a.OutputID) ELSE a.AliasAddress

DelegationTimelock(a) == IF ~a.IsDelegated THEN 0 ELSE a.DelegationTimelock

DelegationTimeLockedNow(a, nowis) ==
    IF ~a.IsDelegated \/ IsZero(a.DelegationTimelock) THEN FALSE
    ELSE After(a.DelegationTimelock, nowis)

equalColoredBalances(b1, b2) ==
    \A col \in (DOMAIN b1) \cup (DOMAIN b2) :
        /\ HasColor(b1, col) = HasColor(b2, col)
        /\ GetColor(b1, col) = GetColor(b2, col)

IsAboveDustThreshold(m) == "IOTA" \in DOMAIN m /\ m["IOTA"] >= DustThresholdAliasOutputIOTA

\* The mutant of IsExactDustMinimum: other colors next to the 100 IOTA are let through.
IsDustMinimumOfIOTA(b) == "IOTA" \in DOMAIN b /\ b["IOTA"] = DustThresholdAliasOutputIOTA

IsExactDustMinimum(b) ==
    IF Cardinality(DOMAIN b) # 1 THEN FALSE
    ELSE IF "IOTA" \notin DOMAIN b \/ b["IOTA"] # DustThresholdAliasOutputIOTA THEN FALSE
    ELSE TRUE

\* checkBasicValidity, without the size limits of the byte fields.
checkBasicValidity(a) ==
    /\ IsAboveDustThreshold(a.Balances)
    /\ a.StateAddress # "nil"
    /\ ~(IsOrigin(a) /\ a.StateIndex # Uint32(0))
    /\ a.StateAddress # a.AliasAddress
    /\ GetGoverningAddress(a) # a.AliasAddress
    /\ ~(~a.IsDelegated /\ ~IsZero(a.DelegationTimelock))

\* The mutant of AliasAddressUnchanged: the stored alias addresses are compared, and
\* the address an origin output has yet to be given counts as equal to any.
StoredAliasAddressUnchanged(a, chained) ==
    a.AliasAddress = NilAliasAddress \/ a.AliasAddress = chained.AliasAddress

\* a.GetAliasAddress().Equals(chained.GetAliasAddress())
AliasAddressUnchanged(a, chained) == GetAliasAddress(a) = GetAliasAddress(chained)

\* The mutant of StateIndexUnchanged: a state index that went up by one is let through.
StateIndexUnchangedOrNext(a, chained) ==
    chained.StateIndex \in {a.StateIndex, Uint32Add1(a.StateIndex)}

\* The state index test of the governance transition.
StateIndexUnchanged(a, chained) == a.StateIndex = chained.StateIndex

\* validateTransition(chained, tx): the error it returns, "nil" for none.  tx is read
\* for its timestamp only.
validateTransition(a, chained, timestamp) ==
    IF ~AliasAddressUnchanged(a, chained) THEN "can't modify alias Address"
    ELSE IF a.ImmutableData # chained.ImmutableData THEN "can't modify immutable data"
    ELSE IF chained.IsGovernanceUpdate THEN
        IF a.StateData # chained.StateData
        THEN "state data is not unlocked for modification"
        ELSE IF ~StateIndexUnchanged(a, chained)
        THEN "state index is not unlocked for modification"
        ELSE IF ~equalColoredBalances(a.Balances, chained.Balances)
        THEN "tokens are not unlocked for modification"
        ELSE IF IsDelegated(a) /\ DelegationTimeLockedNow(a, timestamp)
        THEN "governance transition not allowed until"
        ELSE "nil"
    ELSE
        IF Uint32Add1(a.StateIndex) # chained.StateIndex
        THEN "expected state index"
        ELSE IF a.StateAddress # chained.StateAddress
        THEN "state Address is not unlocked for modification"
        ELSE IF \/ IsSelfGoverned(a) # IsSelfGoverned(chained)
                \/ (a.GoverningAddress # "nil" /\ a.GoverningAddress # chained.GoverningAddress)
        THEN "governing Address is not unlocked for modification"
        ELSE IF a.GovernanceMetadata # chained.GovernanceMetadata
        THEN "governance metadata is not unlocked for modification"
        ELSE IF IsDelegated(a) /\ ~equalColoredBalances(a.Balances, chained.Balances)
        THEN "delegated output funds can't be changed"
        ELSE IF IsDelegated(a) # IsDelegated(chained)
        THEN "delegation status can't be changed"
        ELSE IF DelegationTimelock(a) # DelegationTimelock(chained)
        THEN "delegation Timelock can't be changed"
        ELSE IF /\ IsDelegated(a)
                /\ ~IsZero(DelegationTimelock(a))
                /\ ~DelegationTimeLockedNow(a, timestamp)
        THEN "state transition of delegated output not allowed after"
        ELSE "nil"

\* validateDestroyTransitionNow(nowis): the error it returns, "nil" for none.
validateDestroyTransitionNow(a, nowis) ==
    IF ~IsDelegated(a) /\ ~IsExactDustMinimum(a.Balances)
    THEN "more tokens then upper limit for non-delegated alias destruction"
    ELSE IF IsDelegated(a) /\ DelegationTimeLockedNow(a, nowis)
    THEN "didn't find expected chained output for delegated output"
    ELSE "nil"

\* NewAliasOutputNext: the clone with the alias address filled in, no longer origin,
\* the state index incremented unless the successor is a governance update.  The
\* successor is an output of the next transaction and gets the OutputID "o2".
NewAliasOutputNext(a, governanceUpdate) ==
    [a EXCEPT !.OutputID = "o2",
              !.AliasAddress = GetAliasAddress(a),
              !.IsOrigin = FALSE,
              !.IsGovernanceUpdate = governanceUpdate,
              !.StateIndex = IF governanceUpdate THEN @ ELSE Uint32Add1(@)]

\* The number of setter calls made on a successor before it is validated.
SettersBound == 2

\* The setters of the model, each with the value it sets.
Setters ==
    {"AliasAddress", "AliasAddressNil", "ImmutableData", "StateData",
     "StateIndex0", "StateIndex2", "BalancesDust", "BalancesColored",
     "StateAddress", "GoverningNil", "GoverningOther", "GovernanceMetadata",
     "Delegated", "NotDelegated", "Timelock0", "Timelock3", "Governance"}

Set(a, setter) ==
    CASE setter = "AliasAddress"       -> [a EXCEPT !.AliasAddress = "alias-other"]
      [] setter = "AliasAddressNil"    -> [a EXCEPT !.AliasAddress = NilAliasAddress]
      [] setter = "ImmutableData"      -> [a EXCEPT !.ImmutableData = "other immutable"]
      [] setter = "StateData"          -> [a EXCEPT !.StateData = "other state"]
      [] setter = "StateIndex0"        -> [a EXCEPT !.StateIndex = Uint32(0)]
      [] setter = "StateIndex2"        -> [a EXCEPT !.StateIndex = Uint32(2)]
      [] setter = "BalancesDust"       -> [a EXCEPT !.Balances = [c \in {"IOTA"} |-> 100]]
      [] setter = "BalancesColored"    ->
             [a EXCEPT !.Balances = [c \in {"IOTA", "red"} |-> IF c = "IOTA" THEN 100 ELSE 1]]
      [] setter = "StateAddress"       -> [a EXCEPT !.StateAddress = "addr3"]
      [] setter = "GoverningNil"       -> [a EXCEPT !.GoverningAddress = "nil"]
      [] setter = "GoverningOther"     -> [a EXCEPT !.GoverningAddress = "addr4"]
      [] setter = "GovernanceMetadata" -> [a EXCEPT !.GovernanceMetadata = "other metadata"]
      [] setter = "Delegated"          -> [a EXCEPT !.IsDelegated = TRUE]
      [] setter = "NotDelegated"       -> [a EXCEPT !.IsDelegated = FALSE]
      [] setter = "Timelock0"          -> [a EXCEPT !.DelegationTimelock = 0]
      [] setter = "Timelock3"          -> [a EXCEPT !.DelegationTimelock = 3]
      [] setter = "Governance"         ->
             [a EXCEPT !.StateAddress = "addr3", !.GoverningAddress = "addr4",
                       !.GovernanceMetadata = "other metadata",
                       !.IsDelegated = ~@, !.DelegationTimelock = IF a.IsDelegated THEN 0 ELSE 3]

RECURSIVE SetAll(_, _)
SetAll(a, setters) ==
    IF setters = <<>> THEN a ELSE SetAll(Set(a, Head(setters)), Tail(setters))

\* The alias outputs the model consumes: origin outputs (no alias address yet, state
\* index 0) and later outputs of a chain, among them one whose state index is the
\* largest uint32.
AliasOutputs ==
    {a \in [OutputID : {"o1"},
            Balances : {[c \in {"IOTA"} |-> 100], [c \in {"IOTA"} |-> 200],
                        [c \in {"IOTA", "red"} |-> IF c = "IOTA" THEN 100 ELSE 1]},
            AliasAddress : {NilAliasAddress, "alias1"},
            StateAddress : {"addr1"},
            StateIndex : {Uint32(0), Uint32(1), MaxUint32},
            StateData : {"state"},
            GovernanceMetadata : {"metadata"},
            ImmutableData : {"immutable"},
            IsGovernanceUpdate : {FALSE},
            GoverningAddress : {"nil", "addr2"},
            IsOrigin : BOOLEAN,
            IsDelegated : BOOLEAN,
            DelegationTimelock : {0, 2}] :
        /\ a.IsOrigin = (a.AliasAddress = NilAliasAddress)
        /\ checkBasicValidity(a)}

Timestamps == 1..3

\* A call of validateTransition on a and the successor made of it by NewAliasOutputNext
\* and the setter calls s.
TransitionCall(a, governanceUpdate, s, t) ==
    [fn |-> "validateTransition", a |-> a,
     chained |-> SetAll(NewAliasOutputNext(a, governanceUpdate), s), timestamp |-> t]

DestroyCalls ==
    {[fn |-> "validateDestroyTransitionNow", a |-> a, nowis |-> t] :
        a \in AliasOutputs, t \in Timestamps}

CallValidateTransition ==
    /\ fnCall.fn = "validateTransition"
    /\ fnResult = NoResult
    /\ fnResult' = [returned |-> TRUE,
                    err |-> validateTransition(fnCall.a, fnCall.chained, fnCall.timestamp)]
    /\ UNCHANGED <<fpcVars, fnCall, txn, idCalls, callStack, queueVars, concurrentVars>>

CallValidateDestroyTransitionNow ==
    /\ fnCall.fn = "validateDestroyTransitionNow"
    /\ fnResult = NoResult
    /\ fnResult' = [returned |-> TRUE,
                    err |-> validateDestroyTransitionNow(fnCall.a, fnCall.nowis)]
    /\ UNCHANGED <<fpcVars, fnCall, txn, idCalls, callStack, queueVars, concurrentVars>>

TransitionChecked == fnCall.fn = "validateTransition" /\ fnResult # NoResult

GovernanceChecked == TransitionChecked /\ fnCall.chained.IsGovernanceUpdate

StateChecked == TransitionChecked /\ ~fnCall.chained.IsGovernanceUpdate

DestroyChecked == fnCall.fn = "validateDestroyTransitionNow" /\ fnResult # NoResult

\* C17: for every alias output and every successor validateTransition accepts, as a
\* governance or as a state transition, the alias address and the immutable data of
\* the successor are those of the consumed output.
C17_AliasAddressAndImmutableDataKept ==
    (TransitionChecked /\ fnResult.err = "nil") =>
        /\ GetAliasAddress(fnCall.chained) = GetAliasAddress(fnCall.a)
        /\ fnCall.chained.ImmutableData = fnCall.a.ImmutableData

\* An origin output, whose alias address is derived from its OutputID, was followed
\* by an accepted state transition.
C17_Witness ==
    /\ StateChecked
    /\ fnResult.err = "nil"
    /\ fnCall.a.IsOrigin
    /\ fnCall.a.AliasAddress = NilAliasAddress
    /\ fnCall.chained.AliasAddress = NewAliasAddress(fnCall.a.OutputID)
    /\ fnCall.chained.StateData # fnCall.a.StateData

\* C18 as claimed: a state transition (chained.isGovernanceUpdate false) is accepted
\* only if, for every state index of the consumed output, the successor's state index
\* is the consumed one plus exactly 1 (as numbers: nothing follows the largest
\* uint32), state address, governing address and governance metadata are unchanged,
\* and, when the consumed output is delegated, the balances, the delegation status
\* and the delegation timelock are unchanged and the timestamp of the transaction is
\* not past an existing delegation timelock.
C18_StateTransitionAcceptedOnlyIf ==
    (StateChecked /\ fnResult.err = "nil") =>
        LET a == fnCall.a
            chained == fnCall.chained
        IN  /\ a.StateIndex # MaxUint32
            /\ chained.StateIndex = Uint32Add1(a.StateIndex)
            /\ chained.StateAddress = a.StateAddress
            /\ chained.GoverningAddress = a.GoverningAddress
            /\ chained.GovernanceMetadata = a.GovernanceMetadata
            /\ a.IsDelegated =>
                  /\ chained.Balances = a.Balances
                  /\ chained.IsDelegated
                  /\ chained.DelegationTimelock = a.DelegationTimelock
                  /\ a.DelegationTimelock # 0 => fnCall.timestamp <= a.DelegationTimelock

\* C19: a governance transition (chained.isGovernanceUpdate true) is accepted exactly
\* if alias address, immutable data, state data, state index and balances are
\* unchanged and the consumed output is not delegated with a delegation timelock later
\* than the timestamp of the transaction.  Hence a change of state address, governing
\* address, governance metadata, delegation status or delegation timelock, of some or
\* of all of them, never causes rejection.
C19_GovernanceTransitionAcceptedIff ==
    GovernanceChecked =>
        LET a == fnCall.a
            chained == fnCall.chained
        IN  (fnResult.err = "nil") <=>
                /\ GetAliasAddress(chained) = GetAliasAddress(a)
                /\ chained.ImmutableData = a.ImmutableData
                /\ chained.StateData = a.StateData
                /\ chained.StateIndex = a.StateIndex
                /\ chained.Balances = a.Balances
                /\ ~(a.IsDelegated /\ a.DelegationTimelock > fnCall.timestamp)

\* A governance transition that changed state address, governing address, governance
\* metadata, delegation status and delegation timelock at once was accepted.
C19_Witness ==
    /\ GovernanceChecked
    /\ fnResult.err = "nil"
    /\ fnCall.chained.StateAddress # fnCall.a.StateAddress
    /\ fnCall.chained.GoverningAddress # fnCall.a.GoverningAddress
    /\ fnCall.chained.GovernanceMetadata # fnCall.a.GovernanceMetadata
    /\ fnCall.chained.IsDelegated # fnCall.a.IsDelegated
    /\ fnCall.chained.DelegationTimelock # fnCall.a.DelegationTimelock

\* C20: the destruction of an alias output (no chained successor in the transaction)
\* is accepted exactly if the output is not delegated and holds exactly the dust
\* minimum (100 IOTA and no other color), or is delegated and its delegation timelock
\* is not later than the time of the check (no timelock at all included); in every
\* other case an error is returned.
C20_DestructionAcceptedIff ==
    DestroyChecked =>
        LET a == fnCall.a
        IN  (fnResult.err = "nil") <=>
                \/ ~a.IsDelegated /\ a.Balances = [c \in {"IOTA"} |-> 100]
                \/ a.IsDelegated /\ ~(a.DelegationTimelock > fnCall.nowis)

\* A delegated output holding more than the dust minimum was destroyed at the very
\* time of its delegation timelock.
C20_Witness ==
    /\ DestroyChecked
    /\ fnResult.err = "nil"
    /\ fnCall.a.IsDelegated
    /\ fnCall.a.DelegationTimelock = 2
    /\ fnCall.nowis = 2
    /\ fnCall.a.Balances = [c \in {"IOTA"} |-> 200]

\* ---------------------------------------------------------------------------------
\* Unlocking outputs: UnlockValid of the four output kinds (input.go) and the unlock
\* blocks (unnamed/part_004)
\* ---------------------------------------------------------------------------------

SigLockedColoredOutputType == 1

AliasOutputType == 2

ExtendedLockedOutputType == 3

AliasAddressType == 2

SignatureUnlockBlockType == 0

ReferenceUnlockBlockType == 1

AliasUnlockBlockType == 2

\* The addresses of alias type among the address names.
AliasAddresses ==
    {NilAliasAddress, "alias1", "alias2", "alias-other"} \cup
    {NewAliasAddress(id) : id \in {"o1", "o2", "o3"}}

\* Address.Type()
AddressType(address) ==
    IF address \in AliasAddresses THEN AliasAddressType ELSE ED25519AddressType

\* Output.Type(): the kind of an output record is told by its fields.
OutputType(o) ==
    IF "StateIndex" \in DOMAIN o THEN AliasOutputType
    ELSE IF "Timelock" \in DOMAIN o THEN ExtendedLockedOutputType
    ELSE IF "Balances" \in DOMAIN o THEN SigLockedColoredOutputType
    ELSE SigLockedSingleOutputType

NewSigLockedColoredOutput(balances, address) ==
    [Id |-> "o0", Balances |-> balances, Address |-> address]

\* NewExtendedLockedOutput(...).WithFallbackOptions(...).WithTimeLock(...)
NewExtendedLockedOutput(balances, address, fallbackAddress, fallbackDeadline, timelock) ==
    [Id |-> "o0", Balances |-> balances, Address |-> address,
     FallbackAddress |-> fallbackAddress, FallbackDeadline |-> fallbackDeadline,
     Timelock |-> timelock, Payload |-> ""]

\* tx.Essence().Bytes(), the signed data: of the essence the model keeps the version
\* and the timestamp.
EssenceBytes(tx) == <<0, tx.Timestamp>>

\* The ED25519 address of a public key: the digest of the key.
ED25519AddressOf(publicKey) ==
    CASE publicKey = "key1" -> "addr1"
      [] publicKey = "key2" -> "addr2"

\* The signature the owner of publicKey makes of data.
Sign(publicKey, data) == [by |-> publicKey, of |-> data]

NewED25519Signature(publicKey, signature) == [PublicKey |-> publicKey, Signature |-> signature]

\* ED25519Signature.AddressSignatureValid (signature.go)
ED25519AddressSignatureValid(e, address, data) ==
    IF AddressType(address) # ED25519AddressType THEN FALSE
    ELSE IF ED25519AddressOf(e.PublicKey) # address THEN FALSE
    ELSE e.Signature = Sign(e.PublicKey, data)

NewSignatureUnlockBlock(signature) == [Type |-> SignatureUnlockBlockType, Signature |-> signature]

NewReferenceUnlockBlock(referencedIndex) ==
    [Type |-> ReferenceUnlockBlockType, ReferencedIndex |-> referencedIndex]

NewAliasUnlockBlock(chainInputIndex) ==
    [Type |-> AliasUnlockBlockType, ReferencedIndex |-> chainInputIndex]

\* What a call of UnlockValid comes to: it returns (unlockValid, err), it panics, or
\* it calls blk.AddressSignatureValid(address, data) and goes on with ifTrue or
\* ifFalse according to the value that call returns.
Return(unlockValid, err) ==
    [returned |-> TRUE, unlockValid |-> unlockValid, err |-> err, crash |-> "none"]

Crash(how) == [returned |-> FALSE, unlockValid |-> FALSE, err |-> "-", crash |-> how]

CallAddressSignatureValid(blk, address, data, ifTrue, ifFalse) ==
    [calls |-> "SignatureUnlockBlock.AddressSignatureValid", s |-> blk,
     address |-> address, signedData |-> data, ifTrue |-> ifTrue, ifFalse |-> ifFalse]

IsCall(outcome) == "calls" \in DOMAIN outcome

\* The body of SignatureUnlockBlock.AddressSignatureValid if it handed the check on
\* to the signature it contains.
DelegateToSignature(frame) ==
    [returns |-> TRUE,
     value |-> ED25519AddressSignatureValid(frame.s.Signature, frame.address, frame.signedData)]

\* The body of SignatureUnlockBlock.AddressSignatureValid (part_004, 105-107):
\* `return s.AddressSignatureValid(address, signedData)`, where s is the unlock block
\* itself.  The method calls itself with the same arguments; no value is returned.
SignatureUnlockBlockAddressSignatureValid(frame) == [returns |-> FALSE, value |-> FALSE]

\* findChainedOutputAndCheckFork: the output of tx with the alias address of a; an
\* error if there are two.
findChainedOutputAndCheckFork(a, tx) ==
    LET matches == {i \in 1..Len(tx.Outputs) :
                       /\ OutputType(tx.Outputs[i]) = AliasOutputType
                       /\ GetAliasAddress(a) = GetAliasAddress(tx.Outputs[i])}
    IN  IF Cardinality(matches) >= 2
        THEN [err |-> "duplicated alias output", found |-> FALSE, chained |-> a]
        ELSE IF matches = {}
        THEN [err |-> "nil", found |-> FALSE, chained |-> a]
        ELSE [err |-> "nil", found |-> TRUE,
              chained |-> tx.Outputs[CHOOSE i \in matches : TRUE]]

\* The mutant of hasToBeUnlockedForGovernanceUpdate: an alias with two successors
\* counts as one that has to be unlocked for governance.
hasToBeUnlockedUnlessStateUpdate(a, tx) ==
    LET r == findChainedOutputAndCheckFork(a, tx)
    IN  IF r.err # "nil" THEN TRUE
        ELSE IF ~r.found THEN TRUE
        ELSE r.chained.IsGovernanceUpdate

hasToBeUnlockedForGovernanceUpdate(a, tx) ==
    LET r == findChainedOutputAndCheckFork(a, tx)
    IN  IF r.err # "nil" THEN FALSE
        ELSE IF ~r.found THEN TRUE
        ELSE r.chained.IsGovernanceUpdate

\* The alias-reference branch the three non-alias kinds share: address is the address
\* that locks the output, refIndex the index the unlock block holds (from 0).
UnlockByAliasReference(kind, address, tx, refIndex, inputs) ==
    IF AddressType(address) # AliasAddressType
    THEN Return(FALSE, kind \o ": Address can't be unlocked by alias reference")
    ELSE IF refIndex >= Len(inputs)
    THEN Crash("index out of range")
    ELSE IF OutputType(inputs[refIndex + 1]) # AliasOutputType
    THEN Return(FALSE, kind \o ": referenced input must be AliasOutput")
    ELSE IF address # GetAliasAddress(inputs[refIndex + 1])
    THEN Return(FALSE, kind \o ": wrong alias referenced")
    ELSE Return(~hasToBeUnlockedForGovernanceUpdate(inputs[refIndex + 1], tx), "nil")

\* SigLockedSingleOutput.UnlockValid and SigLockedColoredOutput.UnlockValid
SigLockedUnlockValid(s, tx, blk, inputs) ==
    LET kind == IF OutputType(s) = SigLockedSingleOutputType
                THEN "SigLockedSingleOutput" ELSE "SigLockedColoredOutput"
    IN  IF blk.Type = SignatureUnlockBlockType
        THEN CallAddressSignatureValid(blk, s.Address, EssenceBytes(tx),
                                       Return(TRUE, "nil"), Return(FALSE, "nil"))
        ELSE IF blk.Type = AliasUnlockBlockType
        THEN UnlockByAliasReference(kind, s.Address, tx, blk.ReferencedIndex, inputs)
        ELSE Return(FALSE, kind \o ": unsupported unlock block type")

\* The mutant of TimeLockedNow: the output is still locked at the time of its timelock.
TimeLockedUntilAfter(o, nowis) == o.Timelock >= nowis

\* ExtendedLockedOutput.TimeLockedNow
TimeLockedNow(o, nowis) == After(o.Timelock, nowis)

\* ExtendedLockedOutput.UnlockAddressNow
UnlockAddressNow(o, nowis) ==
    IF o.FallbackAddress = "nil" THEN o.Address
    ELSE IF After(nowis, o.FallbackDeadline) THEN o.FallbackAddress
    ELSE o.Address

\* ExtendedLockedOutput.UnlockValid
ExtendedLockedUnlockValid(o, tx, blk, inputs) ==
    IF TimeLockedNow(o, tx.Timestamp) THEN Return(FALSE, "nil")
    ELSE LET addr == UnlockAddressNow(o, tx.Timestamp)
         IN  IF blk.Type = SignatureUnlockBlockType
             THEN CallAddressSignatureValid(blk, addr, EssenceBytes(tx),
                                            Return(TRUE, "nil"), Return(FALSE, "nil"))
             ELSE IF blk.Type = AliasUnlockBlockType
             THEN UnlockByAliasReference("ExtendedLockedOutput", addr, tx,
                                         blk.ReferencedIndex, inputs)
             ELSE Return(FALSE, "ExtendedLockedOutput: unsupported unlock block type")

\* unlockedGovernanceTransitionByAliasIndex and unlockedStateTransitionByAliasIndex,
\* which differ in the address of a they take: (valid, err), or a panic of
\* inputs[refIndex].
unlockedByAliasIndex(address, tx, refIndex, inputs) ==
    IF AddressType(address) # AliasAddressType
    THEN [panic |-> FALSE, valid |-> FALSE, err |-> "expected Address of AliasAddress type"]
    ELSE IF refIndex > Len(inputs)
    THEN [panic |-> FALSE, valid |-> FALSE, err |-> "wrong alias reference index"]
    ELSE IF refIndex >= Len(inputs)
    THEN [panic |-> TRUE, valid |-> FALSE, err |-> "-"]
    ELSE IF OutputType(inputs[refIndex + 1]) # AliasOutputType
    THEN [panic |-> FALSE, valid |-> FALSE,
          err |-> "the referenced output is not of AliasOutput type"]
    ELSE IF GetAliasAddress(inputs[refIndex + 1]) # address
    THEN [panic |-> FALSE, valid |-> FALSE, err |-> "wrong alias reference Address"]
    ELSE [panic |-> FALSE,
          valid |-> ~hasToBeUnlockedForGovernanceUpdate(inputs[refIndex + 1], tx),
          err |-> "nil"]

\* The end of both branches of AliasOutput.UnlockValid: the transition to the chained
\* output, or the destruction, is validated.
ValidateChain(a, r, tx) ==
    LET err == IF r.found THEN validateTransition(a, r.chained, tx.Timestamp)
               ELSE validateDestroyTransitionNow(a, tx.Timestamp)
    IN  IF err # "nil" THEN Return(FALSE, err) ELSE Return(TRUE, "nil")

\* The address that has to unlock a: the state address for a state update, the
\* governing address for a governance update and for the destruction.
UnlockingAddress(a, r) ==
    IF r.found /\ ~r.chained.IsGovernanceUpdate THEN a.StateAddress ELSE GetGoverningAddress(a)

\* AliasOutput.UnlockValid
AliasUnlockValid(a, tx, blk, inputs) ==
    LET r == findChainedOutputAndCheckFork(a, tx)
    IN  IF r.err # "nil" THEN Return(FALSE, r.err)
        ELSE IF blk.Type = SignatureUnlockBlockType
        THEN CallAddressSignatureValid(blk, UnlockingAddress(a, r), EssenceBytes(tx),
                                       ValidateChain(a, r, tx),
                                       Return(FALSE, "signature is invalid"))
        ELSE IF blk.Type = AliasUnlockBlockType
        THEN LET u == unlockedByAliasIndex(UnlockingAddress(a, r), tx,
                                           blk.ReferencedIndex, inputs)
             IN  IF u.panic THEN Crash("index out of range")
                 ELSE IF ~u.valid
                 THEN Return(FALSE, "referenced alias does not unlock alias: " \o u.err)
                 ELSE ValidateChain(a, r, tx)
        ELSE Return(FALSE, "unsupported unlock block type")

\* Output.UnlockValid, dispatched on the kind of the output.
UnlockValid(o, tx, blk, inputs) ==
    IF OutputType(o) = AliasOutputType THEN AliasUnlockValid(o, tx, blk, inputs)
    ELSE IF OutputType(o) = ExtendedLockedOutputType
    THEN ExtendedLockedUnlockValid(o, tx, blk, inputs)
    ELSE SigLockedUnlockValid(o, tx, blk, inputs)

\* ---------------------------------------------------------------------------------
\* The calls of UnlockValid
\* ---------------------------------------------------------------------------------

\* The number of frames of AddressSignatureValid calls the stack of the model holds
\* before the runtime ends the program with a stack overflow.
StackBound == 3

\* The consumed alias outputs: at state index 1 of the chain "alias1", locked by a
\* key or by the alias "alias2".
ConsumedAliasOutputs ==
    {[a EXCEPT !.StateAddress = stateAddress] :
        a \in {b \in AliasOutputs : b.AliasAddress = "alias1" /\ b.StateIndex = Uint32(1)
                                    /\ DOMAIN b.Balances = {"IOTA"}},
        stateAddress \in {"addr1", "alias2"}}

\* The alias output the alias unlock blocks refer to: the output of the chain "alias2".
ReferencedAlias ==
    [OutputID |-> "o3", Balances |-> [c \in {"IOTA"} |-> 100], AliasAddress |-> "alias2",
     StateAddress |-> "addr1", StateIndex |-> Uint32(1), StateData |-> "state",
     GovernanceMetadata |-> "metadata", ImmutableData |-> "immutable",
     IsGovernanceUpdate |-> FALSE, GoverningAddress |-> "nil", IsOrigin |-> FALSE,
     IsDelegated |-> FALSE, DelegationTimelock |-> 0]

\* The outputs a transaction holds with the alias address of a: none, the next state,
\* the next governance update, a next state that is not a valid transition, or two.
ChainedOutputs(a) ==
    {<<>>,
     <<NewAliasOutputNext(a, FALSE)>>,
     <<NewAliasOutputNext(a, TRUE)>>,
     <<Set(NewAliasOutputNext(a, FALSE), "ImmutableData")>>,
     <<NewAliasOutputNext(a, FALSE), NewAliasOutputNext(a, TRUE)>>}

LockingAddresses == {"addr1", "alias2"}

ConsumedOutputs ==
    ConsumedAliasOutputs
    \cup {SetID(NewSigLockedSingleOutput(1, address), "o0") : address \in LockingAddresses}
    \cup {NewSigLockedColoredOutput([c \in {"IOTA"} |-> 1], address) :
             address \in LockingAddresses}
    \cup {NewExtendedLockedOutput([c \in {"IOTA"} |-> 1], address, fallback[1], fallback[2],
                                  timelock) :
             address \in LockingAddresses,
             fallback \in {<<"nil", 0>>, <<"addr2", 2>>, <<"alias2", 2>>},
             timelock \in {0, 2}}

UnlockBlocks(tx) ==
    UNION {{NewSignatureUnlockBlock(NewED25519Signature(key, Sign(key, EssenceBytes(tx)))),
            NewSignatureUnlockBlock(NewED25519Signature(key, Sign(key, <<0, 0>>)))} :
              key \in {"key1", "key2"}}
    \cup {NewAliasUnlockBlock(k) : k \in 0..2}
    \cup {NewReferenceUnlockBlock(0)}

\* The inputs of the transaction, the consumed output o among them.
InputsOf(o) ==
    {<<o>>, <<o, ReferencedAlias>>, <<ReferencedAlias, o>>,
     <<o, SetID(NewSigLockedSingleOutput(1, "addr1"), "o4")>>}

UnlockInit ==
    /\ NewFPC(<<ScenarioParameters, "like">>)
    /\ \E o \in ConsumedOutputs, t \in Timestamps, referenced \in ChainedOutputs(ReferencedAlias) :
         \E chained \in (IF OutputType(o) = AliasOutputType THEN ChainedOutputs(o) ELSE {<<>>}) :
           LET tx == [Timestamp |-> t, Outputs |-> chained \o referenced]
           IN  \E blk \in UnlockBlocks(tx), inputs \in InputsOf(o) :
                  fnCall = [fn |-> "UnlockValid", o |-> o, tx |-> tx,
                            unlockBlock |-> blk, inputs |-> inputs]
    /\ fnResult = NoResult
    /\ txn = NoTransaction
    /\ idCalls = EmptyMap
    /\ callStack = <<>>
    /\ NoQueue
    /\ NoGoroutines

\* o.UnlockValid(tx, unlockBlock, inputs) up to its return or to its call of
\* blk.AddressSignatureValid.
CallUnlockValid ==
    /\ fnCall.fn = "UnlockValid"
    /\ fnResult = NoResult
    /\ callStack = <<>>
    /\ LET outcome == UnlockValid(fnCall.o, fnCall.tx, fnCall.unlockBlock, fnCall.inputs)
       IN  IF IsCall(outcome)
           THEN /\ callStack' = <<outcome>>
                /\ UNCHANGED fnResult
           ELSE /\ fnResult' = outcome
                /\ UNCHANGED callStack
    /\ UNCHANGED <<fpcVars, fnCall, txn, idCalls, queueVars, concurrentVars>>

\* The body of the AddressSignatureValid call on top of the stack: it returns a value
\* to UnlockValid, which goes on to its own return, or it makes a call, of the same
\* method with the same arguments.
AddressSignatureValid ==
    /\ callStack # <<>>
    /\ fnResult = NoResult
    /\ Len(callStack) < StackBound
    /\ LET frame == callStack[Len(callStack)]
           body == SignatureUnlockBlockAddressSignatureValid(frame)
       IN  IF body.returns
           THEN /\ callStack' = SubSeq(callStack, 1, Len(callStack) - 1)
                /\ fnResult' = IF Len(callStack) > 1 THEN fnResult
                               ELSE IF body.value THEN frame.ifTrue ELSE frame.ifFalse
           ELSE /\ callStack' = Append(callStack, frame)
                /\ UNCHANGED fnResult
    /\ UNCHANGED <<fpcVars, fnCall, txn, idCalls, queueVars, concurrentVars>>

\* The stack is full: the runtime ends the program ("goroutine stack exceeds
\* 1000000000-byte limit"); nothing is returned.
StackOverflow ==
    /\ fnResult = NoResult
    /\ Len(callStack) = StackBound
    /\ fnResult' = Crash("stack overflow")
    /\ UNCHANGED <<fpcVars, fnCall, txn, idCalls, callStack, queueVars, concurrentVars>>

UnlockNext == CallUnlockValid \/ AddressSignatureValid \/ StackOverflow

UnlockSpec == UnlockInit /\ [][UnlockNext]_vars

\* The specification with the scheduling of a running program: a call that can take
\* a step takes it.
UnlockFairSpec == UnlockSpec /\ WF_vars(UnlockNext)

\* ---------------------------------------------------------------------------------
\* The claims about UnlockValid
\* ---------------------------------------------------------------------------------

UnlockCalled == fnCall.fn = "UnlockValid"

UnlockEnded == UnlockCalled /\ fnResult # NoResult

SignatureUnlock == UnlockCalled /\ fnCall.unlockBlock.Type = SignatureUnlockBlockType

AliasUnlock == UnlockCalled /\ fnCall.unlockBlock.Type = AliasUnlockBlockType

\* C24: SignatureUnlockBlock.AddressSignatureValid(address, data) ends and returns what
\* the AddressSignatureValid of the signature it contains returns: no call of it is
\* made from within it and the program does not end in it; so UnlockValid of a
\* SigLockedSingleOutput with a signature unlock block returns true for the key of
\* the address and its signature of the essence, and false for an altered signature.
C24_SignatureCheckReturnsDelegate ==
    (SignatureUnlock /\ OutputType(fnCall.o) = SigLockedSingleOutputType) =>
        /\ Len(callStack) <= 1
        /\ UnlockEnded =>
              fnResult = Return(ED25519AddressSignatureValid(fnCall.unlockBlock.Signature,
                                                             fnCall.o.Address,
                                                             EssenceBytes(fnCall.tx)),
                                "nil")

\* The outputs of the transaction of the call that have the alias address of a.
SuccessorsOf(a, tx) ==
    {i \in 1..Len(tx.Outputs) :
        /\ OutputType(tx.Outputs[i]) = AliasOutputType
        /\ GetAliasAddress(tx.Outputs[i]) = GetAliasAddress(a)}

TheSuccessorOf(a, tx) == tx.Outputs[CHOOSE i \in SuccessorsOf(a, tx) : TRUE]

\* The address the claim names for the signature check of the alias output a.
AddressToCheck(a, tx) ==
    IF SuccessorsOf(a, tx) # {} /\ ~TheSuccessorOf(a, tx).IsGovernanceUpdate
    THEN a.StateAddress
    ELSE GetGoverningAddress(a)

\* The validation that goes with the transition of a in tx passes.
ValidationPasses(a, tx) ==
    IF SuccessorsOf(a, tx) = {}
    THEN validateDestroyTransitionNow(a, tx.Timestamp) = "nil"
    ELSE validateTransition(a, TheSuccessorOf(a, tx), tx.Timestamp) = "nil"

\* C21: AliasOutput.UnlockValid with a signature unlock block returns false with an
\* error when the transaction holds two outputs with the alias address; otherwise it
\* checks the signature against the governing address (governance update, or no
\* successor) or the state address (state update), returns false when the check
\* fails, and returns true only if the check and the validation of the transition or
\* destruction pass.
C21_AliasSignatureUnlock ==
    (SignatureUnlock /\ OutputType(fnCall.o) = AliasOutputType) =>
        LET a == fnCall.o
            tx == fnCall.tx
            signatureValid == ED25519AddressSignatureValid(fnCall.unlockBlock.Signature,
                                                           AddressToCheck(a, tx),
                                                           EssenceBytes(tx))
        IN  /\ callStack # <<>> =>
                  /\ Cardinality(SuccessorsOf(a, tx)) < 2
                  /\ callStack[1].address = AddressToCheck(a, tx)
            /\ UnlockEnded =>
                  /\ fnResult.returned
                  /\ Cardinality(SuccessorsOf(a, tx)) >= 2 =>
                        ~fnResult.unlockValid /\ fnResult.err # "nil"
                  /\ ~signatureValid => ~fnResult.unlockValid
                  /\ fnResult.unlockValid => signatureValid /\ ValidationPasses(a, tx)

\* The part of C21 that does not wait for the signature check: the fork is refused
\* and the check is called with the address the claim names.
AliasSignatureUnlockBeforeCheck ==
    (SignatureUnlock /\ OutputType(fnCall.o) = AliasOutputType) =>
        /\ callStack # <<>> =>
              /\ Cardinality(SuccessorsOf(fnCall.o, fnCall.tx)) < 2
              /\ callStack[1].address = AddressToCheck(fnCall.o, fnCall.tx)
        /\ (UnlockEnded /\ Cardinality(SuccessorsOf(fnCall.o, fnCall.tx)) >= 2) =>
              fnResult = Return(FALSE, "duplicated alias output")

SigLockedAliasUnlock ==
    /\ AliasUnlock
    /\ OutputType(fnCall.o) \in {SigLockedSingleOutputType, SigLockedColoredOutputType}

\* inputs[k] of the call is an alias output with the alias address `address` that is
\* not under a governance update in the transaction: its successor exists, is the
\* only one and is a state update.
UnlockedByAliasInput(address, k) ==
    /\ AddressType(address) = AliasAddressType
    /\ k < Len(fnCall.inputs)
    /\ OutputType(fnCall.inputs[k + 1]) = AliasOutputType
    /\ GetAliasAddress(fnCall.inputs[k + 1]) = address
    /\ Cardinality(SuccessorsOf(fnCall.inputs[k + 1], fnCall.tx)) = 1
    /\ ~TheSuccessorOf(fnCall.inputs[k + 1], fnCall.tx).IsGovernanceUpdate

\* C22: UnlockValid of a SigLockedSingleOutput or SigLockedColoredOutput with an alias
\* unlock block of index k returns true only if the address of the output is an alias
\* address and inputs[k] is an alias output with that alias address whose successor in
\* the transaction exists, is unique and is a state update.
C22_SigLockedUnlockedByAlias ==
    (SigLockedAliasUnlock /\ UnlockEnded /\ fnResult.unlockValid) =>
        UnlockedByAliasInput(fnCall.o.Address, fnCall.unlockBlock.ReferencedIndex)

ExtendedUnlock == UnlockCalled /\ OutputType(fnCall.o) = ExtendedLockedOutputType

\* The address the claim names for an unlocked ExtendedLockedOutput.
EffectiveAddress(o, timestamp) ==
    IF o.FallbackAddress # "nil" /\ timestamp > o.FallbackDeadline
    THEN o.FallbackAddress
    ELSE o.Address

\* C23: ExtendedLockedOutput.UnlockValid returns false for every unlock block unless
\* the timestamp of the transaction is greater than the timelock (at the timelock the
\* output is still locked); when unlocked, the address checked, by the signature check
\* or against the referenced alias, is the fallback address if one is set and the
\* timestamp is greater than the fallback deadline, and the primary address otherwise.
C23_ExtendedLockedUnlock ==
    ExtendedUnlock =>
        LET o == fnCall.o
            timestamp == fnCall.tx.Timestamp
            k == fnCall.unlockBlock.ReferencedIndex
        IN  /\ ~(timestamp > o.Timelock) =>
                  /\ callStack = <<>>
                  /\ UnlockEnded => fnResult.returned /\ ~fnResult.unlockValid
            /\ callStack # <<>> => callStack[1].address = EffectiveAddress(o, timestamp)
            /\ (AliasUnlock /\ UnlockEnded /\ fnResult.unlockValid) =>
                  /\ AddressType(EffectiveAddress(o, timestamp)) = AliasAddressType
                  /\ k < Len(fnCall.inputs)
                  /\ OutputType(fnCall.inputs[k + 1]) = AliasOutputType
                  /\ GetAliasAddress(fnCall.inputs[k + 1]) = EffectiveAddress(o, timestamp)

\* ---------------------------------------------------------------------------------
\* UpdateMintingColor
\* ---------------------------------------------------------------------------------

\* The colors are names: "IOTA" is ColorIOTA, ColorMint the placeholder of tokens to
\* be colored.
ColorMint == "MINT"

\* Color(blake2b.Sum256(id.Bytes())): the color minted in the output with that id.
MintedColor(id) == "blake2b-of-" \o id

\* NewColoredBalances: the balances that are zero are dropped.
NewColoredBalances(balances) ==
    [color \in {c \in DOMAIN balances : balances[c] # 0} |-> balances[color]]

\* Output.ID()
ID(o) == IF OutputType(o) = AliasOutputType THEN o.OutputID ELSE o.Id

\* Output.Balances()
Balances(o) ==
    IF OutputType(o) = SigLockedSingleOutputType
    THEN NewColoredBalances([c \in {"IOTA"} |-> o.Balance])
    ELSE o.Balances

\* The mutant of WithMintedColor: the minted color is added and ColorMint stays.
WithMintedColorAdded(coloredBalances, id) ==
    IF ColorMint \in DOMAIN coloredBalances
    THEN [c \in DOMAIN coloredBalances \cup {MintedColor(id)} |->
             IF c = MintedColor(id) THEN coloredBalances[ColorMint] ELSE coloredBalances[c]]
    ELSE coloredBalances

\* The first statements of the three UpdateMintingColor: in the map of the balances
\* ColorMint is deleted and its coins are put under the color of the output ID.
WithMintedColor(coloredBalances, id) ==
    IF ColorMint \in DOMAIN coloredBalances
    THEN [c \in (DOMAIN coloredBalances \ {ColorMint}) \cup {MintedColor(id)} |->
             IF c = MintedColor(id) THEN coloredBalances[ColorMint] ELSE coloredBalances[c]]
    ELSE coloredBalances

\* SigLockedSingleOutput.UpdateMintingColor
SigLockedSingleUpdateMintingColor(s) == [panic |-> FALSE, output |-> s]

\* SigLockedColoredOutput.UpdateMintingColor
SigLockedColoredUpdateMintingColor(s) ==
    [panic |-> FALSE,
     output |-> SetID(NewSigLockedColoredOutput(
                          NewColoredBalances(WithMintedColor(Balances(s), ID(s))), s.Address),
                      ID(s))]

\* ExtendedLockedOutput.UpdateMintingColor
ExtendedLockedUpdateMintingColor(o) ==
    [panic |-> FALSE,
     output |-> SetID([NewExtendedLockedOutput(
                           NewColoredBalances(WithMintedColor(Balances(o), ID(o))), o.Address,
                           o.FallbackAddress, o.FallbackDeadline, o.Timelock)
                          EXCEPT !.Payload = o.Payload],
                      ID(o))]

\* AliasOutput.clone: the output has to be valid, and so has the copy, which holds
\* the alias address GetAliasAddress gives.
clone(a) ==
    LET ret == [a EXCEPT !.AliasAddress = GetAliasAddress(a)]
    IN  IF checkBasicValidity(a) /\ checkBasicValidity(ret)
        THEN [panic |-> FALSE, output |-> ret]
        ELSE [panic |-> TRUE, output |-> a]

\* AliasOutput.SetBalances: balances below the dust threshold are not set.
SetBalances(a, balances) ==
    IF ~IsAboveDustThreshold(balances) THEN a
    ELSE [a EXCEPT !.Balances = NewColoredBalances(balances)]

\* AliasOutput.UpdateMintingColor
AliasUpdateMintingColor(a) ==
    LET cloned == clone(a)
        updatedOutput == [SetBalances(cloned.output, WithMintedColor(Balances(a), ID(a)))
                             EXCEPT !.OutputID = ID(a)]
    IN  IF cloned.panic THEN cloned
        ELSE IF IsOrigin(a)
        THEN [panic |-> FALSE,
              output |-> [updatedOutput EXCEPT !.AliasAddress = NewAliasAddress(ID(a))]]
        ELSE [panic |-> FALSE, output |-> updatedOutput]

\* Output.UpdateMintingColor, dispatched on the kind of the output.
UpdateMintingColor(o) ==
    CASE OutputType(o) = SigLockedSingleOutputType  -> SigLockedSingleUpdateMintingColor(o)
      [] OutputType(o) = SigLockedColoredOutputType -> SigLockedColoredUpdateMintingColor(o)
      [] OutputType(o) = ExtendedLockedOutputType   -> ExtendedLockedUpdateMintingColor(o)
      [] OutputType(o) = AliasOutputType            -> AliasUpdateMintingColor(o)

\* The colors of the balances of the model; "blake2b-of-o1" is the color minted in
\* the output o1.
MintingColors == {"IOTA", "red", ColorMint, MintedColor("o1")}

\* The balances of the outputs whose color is updated: every color absent or with
\* one of its amounts.
MintingBalances ==
    UNION {{b \in [colors -> {1, 5, 100}] :
               /\ "IOTA" \in colors => b["IOTA"] \in {1, 100}
               /\ "red" \in colors => b["red"] = 1
               /\ ColorMint \in colors => b[ColorMint] \in {1, 5}
               /\ MintedColor("o1") \in colors => b[MintedColor("o1")] = 100} :
             colors \in SUBSET MintingColors}

\* The outputs whose color is updated, each with the ID o1: of the alias outputs an
\* origin and a later one.
MintingOutputs ==
    {SetID(NewSigLockedSingleOutput(balance, "addr1"), "o1") : balance \in OutputBalances}
    \cup {SetID(NewSigLockedColoredOutput(b, "addr1"), "o1") : b \in MintingBalances}
    \cup {SetID(NewExtendedLockedOutput(b, "addr1", "addr2", 2, 2), "o1") : b \in MintingBalances}
    \cup {[a EXCEPT !.Balances = b] :
             a \in {c \in AliasOutputs : /\ c.StateIndex \in {Uint32(0), Uint32(1)}
                                         /\ c.Balances = [d \in {"IOTA"} |-> 100]
                                         /\ c.GoverningAddress = "nil"
                                         /\ ~c.IsDelegated},
             b \in MintingBalances}

MintingCalls == {[fn |-> "UpdateMintingColor", o |-> o] : o \in MintingOutputs}

CallUpdateMintingColor ==
    /\ fnCall.fn = "UpdateMintingColor"
    /\ fnResult = NoResult
    /\ fnResult' = [returned |-> ~UpdateMintingColor(fnCall.o).panic,
                    updatedOutput |-> UpdateMintingColor(fnCall.o).output]
    /\ UNCHANGED <<fpcVars, fnCall, txn, idCalls, callStack, queueVars, concurrentVars>>

MintingColorUpdated ==
    /\ fnCall.fn = "UpdateMintingColor"
    /\ fnResult # NoResult
    /\ fnResult.returned

\* C25: the output UpdateMintingColor returns, for every kind of output, has no
\* balance under ColorMint: the amount the output held under ColorMint is the amount
\* under the color of its ID, every other color has the amount it had, and the ID is
\* the same.
C25_NoMintColorLeft ==
    MintingColorUpdated =>
        LET old == Balances(fnCall.o)
            new == Balances(fnResult.updatedOutput)
            minted == MintedColor(ID(fnCall.o))
        IN  /\ ColorMint \notin DOMAIN new
            /\ ColorMint \in DOMAIN old => GetColor(new, minted) = old[ColorMint]
            /\ \A c \in (DOMAIN old \cup DOMAIN new) \ {ColorMint, minted} :
                  GetColor(new, c) = GetColor(old, c)
            /\ ColorMint \notin DOMAIN old => new = old
            /\ ID(fnResult.updatedOutput) = ID(fnCall.o)

\* An alias output with coins to mint next to other colors has been updated.
C25_Witness ==
    /\ MintingColorUpdated
    /\ OutputType(fnCall.o) = AliasOutputType
    /\ {ColorMint, "red", "IOTA"} \subseteq DOMAIN Balances(fnCall.o)
    /\ GetColor(Balances(fnResult.updatedOutput), MintedColor("o1")) = 5

\* ---------------------------------------------------------------------------------
\* The calls of the UTXO functions
\* ---------------------------------------------------------------------------------

UTXOCalls == SerializationCalls \cup CollectionCalls \cup DestroyCalls \cup MintingCalls

UTXOInit ==
    /\ NewFPC(<<ScenarioParameters, "like">>)
    /\ \/ fnCall \in UTXOCalls
       \/ \E a \in AliasOutputs, g \in BOOLEAN, s \in SeqsUpTo(Setters, SettersBound),
             t \in Timestamps :
             /\ fnCall = TransitionCall(a, g, s, t)
             /\ checkBasicValidity(fnCall.chained)
    /\ fnResult = NoResult
    /\ txn = NoTransaction
    /\ idCalls = EmptyMap
    /\ callStack = <<>>
    /\ NoQueue
    /\ NoGoroutines

UTXONext ==
    \/ CallSerialization
    \/ CallNewOutputs
    \/ CallNewInputs
    \/ CallValidateTransition
    \/ CallValidateDestroyTransitionNow
    \/ CallUpdateMintingColor

UTXOSpec == UTXOInit /\ [][UTXONext]_vars

\* ---------------------------------------------------------------------------------
\* MessageQueue (ratecontrol/messagequeue.go) on the heap of container/heap
\* ---------------------------------------------------------------------------------

\* The number of messages of the model.
MessagesBound == 3

\* The number of Poll calls made on a queue.
PollsBound == 3

\* The largest size limit of a queue; 0 is a queue without limit.
MaxSizeBound == 2

CancelPendingElements == 1

\* The messages: the IDs are bytes, the priorities those of TestMessageQueue_Queue.
Messages == [ID : 1..MessagesBound, Priority : {5, 10, 12}]

\* messageHeap.leadingZeros: the number of leading zero bits of the blake2b digest of
\* the ID, here one number per ID.
leadingZeros(id) == id % 2

\* The order of messageHeap.Less, on two elements.
SortsBefore(x, y) ==
    \/ x.Priority < y.Priority
    \/ leadingZeros(x.ID) < leadingZeros(y.ID)
    \/ x.ID < y.ID

\* messageHeap.Less(i, j); the indices count from 0 as in the code.
Less(h, i, j) == SortsBefore(h[i + 1], h[j + 1])

\* messageHeap.Swap(i, j)
Swap(h, i, j) == [h EXCEPT ![i + 1] = h[j + 1], ![j + 1] = h[i + 1]]

\* up of container/heap: the element at j rises while it is Less than its parent.
RECURSIVE up(_, _)
up(h, j) ==
    LET i == IF j = 0 THEN 0 ELSE (j - 1) \div 2
    IN  IF i = j \/ ~Less(h, j, i) THEN h ELSE up(Swap(h, i, j), i)

\* down of container/heap: the element at i sinks below the lesser of its children
\* among the first n elements; the result names the place it comes to.
RECURSIVE down(_, _, _)
down(h, i, n) ==
    LET j1 == 2 * i + 1
        j == IF j1 + 1 < n /\ Less(h, j1 + 1, j1) THEN j1 + 1 ELSE j1
    IN  IF j1 >= n THEN [h |-> h, i |-> i]
        ELSE IF ~Less(h, j, i) THEN [h |-> h, i |-> i]
        ELSE down(Swap(h, i, j), j, n)

\* heap.Push
heapPush(h, x) == up(Append(h, x), Len(h))

\* heap.Remove(h, i), for 0 <= i < len(h): the heap left and the element removed.
heapRemove(h, i) ==
    LET n == Len(h) - 1
        sunk == down(Swap(h, i, n), i, n)
        fixed == IF n = i THEN h
                 ELSE IF sunk.i > i THEN sunk.h
                 ELSE up(sunk.h, i)
    IN  [h |-> SubSeq(fixed, 1, n), x |-> fixed[n + 1]]

\* heap.Remove(h, 0), count times.
RECURSIVE RemoveFirst(_, _)
RemoveFirst(h, count) == IF count = 0 THEN h ELSE RemoveFirst(heapRemove(h, 0).h, count - 1)

NewMessageQueue(maxSize) ==
    [messageHeap |-> <<>>, maxSize |-> maxSize, isShutdown |-> FALSE, shutdownFlags |-> 0]

QueueInit ==
    /\ NewFPC(<<ScenarioParameters, "like">>)
    /\ NoCalls
    /\ NoGoroutines
    /\ \E maxSize \in 0..MaxSizeBound : messageQueue = NewMessageQueue(maxSize)
    /\ polled = <<>>

\* bitmask.BitMask.HasBits, for a flag of one bit.
HasBits(flags, flag) == (flags \div flag) % 2 = 1

NilMessageID == [nil |-> TRUE, ID |-> 0]

\* The ID of no queued element, of none a Poll call has returned.
Unqueued(id) ==
    /\ \A i \in DOMAIN messageQueue.messageHeap : messageQueue.messageHeap[i].ID # id
    /\ \A k \in DOMAIN polled : polled[k].ret.nil \/ polled[k].ret.ID # id

\* The mutant of QueueMessage: no element is evicted.
QueueMessageWithoutEviction(message) ==
    /\ Unqueued(message.ID)
    /\ IF messageQueue.isShutdown
       THEN UNCHANGED messageQueue
       ELSE messageQueue' =
                [messageQueue EXCEPT !.messageHeap = heapPush(messageQueue.messageHeap, message)]
    /\ UNCHANGED <<fpcVars, fnCall, fnResult, txn, idCalls, callStack, polled,
                   concurrentVars>>

\* MessageQueue.Queue(message)
QueueMessage(message) ==
    /\ Unqueued(message.ID)
    /\ IF messageQueue.isShutdown
       THEN UNCHANGED messageQueue
       ELSE LET pushed == heapPush(messageQueue.messageHeap, message)
            IN  messageQueue' =
                    [messageQueue EXCEPT !.messageHeap =
                        IF messageQueue.maxSize > 0 /\ Len(pushed) > messageQueue.maxSize
                        THEN heapRemove(pushed, 0).h
                        ELSE pushed]
    /\ UNCHANGED <<fpcVars, fnCall, fnResult, txn, idCalls, callStack, polled,
                   concurrentVars>>

Queue == \E message \in Messages : QueueMessage(message)

\* The index of the root of the heap.
FirstIndex(h) == 0

\* The index Poll hands to heap.Remove: len(t.messageHeap) - 1.
PolledIndex(h) == Len(h) - 1

\* MessageQueue.Poll(waitIfEmpty): a call that waits on an empty queue has not
\* returned and is no step; no element is canceled.
Poll ==
    \E waitIfEmpty \in BOOLEAN :
        /\ Len(polled) < PollsBound
        /\ IF Len(messageQueue.messageHeap) = 0
           THEN /\ ~waitIfEmpty \/ messageQueue.isShutdown
                /\ polled' = Append(polled, [messageHeap |-> messageQueue.messageHeap,
                                             isShutdown |-> messageQueue.isShutdown,
                                             ret |-> NilMessageID])
                /\ UNCHANGED messageQueue
           ELSE LET removed == heapRemove(messageQueue.messageHeap,
                                          PolledIndex(messageQueue.messageHeap))
                    canceled == /\ messageQueue.isShutdown
                                /\ HasBits(messageQueue.shutdownFlags, CancelPendingElements)
                IN  /\ messageQueue' = [messageQueue EXCEPT !.messageHeap = removed.h]
                    /\ polled' = Append(polled,
                                        [messageHeap |-> messageQueue.messageHeap,
                                         isShutdown |-> messageQueue.isShutdown,
                                         ret |-> IF canceled THEN NilMessageID
                                                 ELSE [nil |-> FALSE, ID |-> removed.x.ID]])
        /\ UNCHANGED <<fpcVars, fnCall, fnResult, txn, idCalls, callStack, concurrentVars>>

\* MessageQueue.Shutdown(optionalShutdownFlags...) of a queue not yet shut down.
Shutdown ==
    \E flags \in {0, CancelPendingElements} :
        /\ ~messageQueue.isShutdown
        /\ messageQueue' =
               [messageQueue EXCEPT
                   !.isShutdown = TRUE,
                   !.shutdownFlags = flags,
                   !.messageHeap = IF HasBits(flags, CancelPendingElements)
                                   THEN RemoveFirst(@, Len(@))
                                   ELSE @]
        /\ UNCHANGED <<fpcVars, fnCall, fnResult, txn, idCalls, callStack, polled,
                       concurrentVars>>

QueueNext == Queue \/ Poll \/ Shutdown

QueueSpec == QueueInit /\ [][QueueNext]_vars

\* C26: Poll removes and returns the first element of the queue, the one that sorts
\* before every other queued element in the order of messageHeap.Less, and Poll on an
\* empty queue returns nil; so a queue of maximum size 2 with two elements yields two
\* elements and then nil.
C26_PollReturnsFirst ==
    \A k \in DOMAIN polled :
        LET h == polled[k].messageHeap
            ret == polled[k].ret
        IN  /\ Len(h) = 0 => ret.nil
            /\ (Len(h) > 0 /\ ~polled[k].isShutdown) =>
                  /\ ~ret.nil
                  /\ \E i \in DOMAIN h :
                        /\ h[i].ID = ret.ID
                        /\ \A j \in DOMAIN h \ {i} : SortsBefore(h[i], h[j])

\* The part of C26 about the number of elements: a queue with a size limit holds no
\* more elements than the limit, and Poll returns nil from the empty queue only.
PollReturnsNilOnlyIfEmpty ==
    /\ messageQueue.maxSize > 0 => Len(messageQueue.messageHeap) <= messageQueue.maxSize
    /\ \A k \in DOMAIN polled :
          polled[k].isShutdown \/ (polled[k].ret.nil <=> Len(polled[k].messageHeap) = 0)

\* ---------------------------------------------------------------------------------
\* The claims about the tally of queryOpinions
\* ---------------------------------------------------------------------------------

\* The step is the one of the goroutine of g whose Query has returned r, one opinion
\* per id and no error.
AnsweredWith(g, r) ==
    /\ pc = "waiting"
    /\ g \in DOMAIN tasks
    /\ tasks[g].state = "querying"
    /\ ~r.err
    /\ Len(r.opinions) = Len(conflictIDs) + Len(timestampIDs)
    /\ queryTask(g, r)

\* The position of id in conflictIDs followed by timestampIDs.
PositionOf(id) ==
    IF id \in Range(conflictIDs) THEN IndexOf(conflictIDs, id)
    ELSE Len(conflictIDs) + IndexOf(timestampIDs, id)

RecordedAtPositions ==
    \A g \in GiverIDs, r \in QueryResults(Len(conflictIDs) + Len(timestampIDs)) :
        AnsweredWith(g, r) =>
            \A id \in Range(conflictIDs) \cup Range(timestampIDs) :
                voteMap'[id] = voteMap[id] \o [j \in 1 .. tasks[g].selectedCount |->
                                                  r.opinions[PositionOf(id)]]

\* C27: the opinion the tally records for a subject from a giver is the opinion the
\* giver returned at the position of the subject in conflictIDs followed by
\* timestampIDs: response[i] for the conflict at position i, response[len(conflictIDs)
\* + i] for the timestamp at position i.
C27_OpinionsRecordedAtPositions == [][RecordedAtPositions]_vars

\* The step is the end of a successful query phase: wg.Wait() has returned.
QueryPhaseEnds == pc = "waiting" /\ pc' # "waiting"

\* The opinion of the giver whose Query answered is counted selectedCount times for
\* every subject.
CountedAsOftenAsSelected ==
    \A g \in GiverIDs, r \in QueryResults(Len(conflictIDs) + Len(timestampIDs)) :
        AnsweredWith(g, r) =>
            \A id \in Range(conflictIDs) \cup Range(timestampIDs) :
                /\ Len(voteMap'[id]) = Len(voteMap[id]) + tasks[g].selectedCount
                /\ SubSeq(voteMap'[id], 1, Len(voteMap[id])) = voteMap[id]
                /\ \A j \in Len(voteMap[id]) + 1 .. Len(voteMap'[id]) :
                      voteMap'[id][j] \in Range(r.opinions)

\* The tally of the counted opinions of the context id, as the claim states it.
TalliedAsClaimed(id) ==
    LET votes == voteMap[id]
        votedCount == Cardinality({i \in DOMAIN votes : votes[i] # "Unknown"})
        likedSum == Cardinality({i \in DOMAIN votes : votes[i] = "Like"})
    IN  /\ ctxs'[id].ProportionLiked =
               IF votedCount < paras.MinOpinionsReceived THEN ctxs[id].ProportionLiked
               ELSE <<likedSum, votedCount>>
        /\ ctxs'[id].Weights = [OwnWeight |-> mana.own,
                                TotalWeights |-> SumMana(opinionGivers.givers) + mana.own]

QueryPhaseCountsAndTallies ==
    /\ CountedAsOftenAsSelected
    /\ QueryPhaseEnds => \A id \in DOMAIN ctxs : TalliedAsClaimed(id)

\* The tally alone, of the votes that are in voteMap when the query phase ends.
TallyAsClaimed == [][QueryPhaseEnds => \A id \in DOMAIN ctxs : TalliedAsClaimed(id)]_vars

\* C28: in a successful query phase the opinion of each giver that responds is
\* counted as many times as the giver was selected; votedCount is the number of
\* counted opinions that are not Unknown and likedSum the number of counted Like; a
\* context with votedCount < MinOpinionsReceived keeps its ProportionLiked, every
\* other gets likedSum / votedCount; Weights is (ownMana, sum of the giver mana +
\* ownMana).
C28_OpinionsCountedAndTallied == [][QueryPhaseCountsAndTallies]_vars

\* C29: in every reachable state, for every parameter setting (MinOpinionsReceived = 0
\* included), the ProportionLiked of every vote context is -1 or a ratio in [0,1]; it
\* is never the quotient by a votedCount of zero.
C29_ProportionLikedIsRatio ==
    \A id \in DOMAIN ctxs :
        LET p == ctxs[id].ProportionLiked
        IN  \/ p = likedInit
            \/ p[2] > 0 /\ 0 <= p[1] /\ p[1] <= p[2]

\* ---------------------------------------------------------------------------------
\* The claims about the opinions of a context and its rounds
\* ---------------------------------------------------------------------------------

PastCoolingOff(voteCtx) == voteCtx.Rounds > paras.TotalRoundsCoolingOffPeriod

\* C30 as stated: for every active context past the cooling-off period, after any
\* sequence of Round calls, len(Opinions) == Rounds - TotalRoundsCoolingOffPeriod + 1.
C30_OpinionsMatchRounds ==
    pc = "idle" =>
        \A id \in DOMAIN ctxs :
            PastCoolingOff(ctxs[id]) =>
                Len(ctxs[id].Opinions) =
                    ctxs[id].Rounds - paras.TotalRoundsCoolingOffPeriod + 1

\* C30, amended: every active context holds its initial opinion and at most one more
\* for each of its rounds but the first: 1 <= len(Opinions) <= Rounds + 1 in every
\* state, and len(Opinions) <= max(Rounds, 1) once Round has returned.
C30_OpinionsAtMostRounds ==
    \A id \in DOMAIN ctxs :
        /\ Len(ctxs[id].Opinions) >= 1
        /\ Len(ctxs[id].Opinions) <= ctxs[id].Rounds + 1
        /\ pc = "idle" =>
              Len(ctxs[id].Opinions) <= (IF ctxs[id].Rounds > 1 THEN ctxs[id].Rounds ELSE 1)

\* Round has returned three times for a context: one round formed an opinion, the
\* round after a failed query and the first round formed none.
C30_Witness ==
    /\ pc = "idle"
    /\ \E id \in DOMAIN ctxs :
          /\ PastCoolingOff(ctxs[id])
          /\ ctxs[id].Rounds = 3
          /\ Len(ctxs[id].Opinions) = 2

\* ---------------------------------------------------------------------------------
\* The calls of formOpinions
\* ---------------------------------------------------------------------------------

FormRoundsBound == 4

\* Parameters with a first-round band, a band for the subsequent rounds and a fixed
\* ending threshold that differ, with and without a cooling-off round.
FormParameters ==
    { [ScenarioParameters EXCEPT !.SubsequentRoundsUpperBoundThreshold = 67,
                                 !.TotalRoundsCoolingOffPeriod = c] : c \in {0, 1} }

\* The ProportionLiked a tally leaves: -1, 0/0 and proportions in [0, 1].
FormProportions == {likedInit, NaN, <<0, 1>>, <<1, 2>>, <<3, 5>>, <<2, 3>>, <<1, 1>>}

\* The Weights a tally leaves: the own mana and the sum of it and the mana of the
\* opinion givers (0 when the sampling fell back to uniform).
FormWeights ==
    { [OwnWeight |-> w[1], TotalWeights |-> w[2]] :
          w \in {<<0, 0>>, <<0, 2>>, <<1, 1>>, <<1, 2>>, <<1, 4>>, <<2, 2>>} }

\* The contexts formOpinions finds: a context is new until the query of its first
\* round (which follows Rounds++) has tallied it.
FormContexts ==
    { voteCtx \in { [NewContext("A", "ConflictType", opn) EXCEPT !.Rounds = rounds,
                                                                 !.ProportionLiked = p,
                                                                 !.Weights = w] :
                        opn \in Opinions, rounds \in 0..FormRoundsBound,
                        p \in FormProportions, w \in FormWeights } :
          voteCtx.Rounds = 0 => IsNew(voteCtx) }

\* Round has enqueued after a successful round and is about to call formOpinions.
FormInit ==
    /\ queue = <<>>
    /\ queueSet = {}
    /\ \E voteCtx \in FormContexts : ctxs = [id \in {voteCtx.ID} |-> voteCtx]
    /\ lastRoundCompletedSuccessfully = TRUE
    /\ paras \in FormParameters /\ env = "like"
    /\ pc = "form"
    /\ tasks = EmptyMap
    /\ conflictIDs = <<>>
    /\ timestampIDs = <<>>
    /\ voteMap = EmptyMap
    /\ voteMapMu = "unlocked"
    /\ allQueriedOpinions = <<>>
    /\ mana = NoMana
    /\ opinionGivers = NoProviderCall
    /\ events = {}
    /\ roundErr = "none"
    /\ voteRet = NoCall
    /\ succ = [id \in IDs |-> 0]
    /\ terminated = {}
    /\ everSucceeded = TRUE
    /\ roundsAtCall = [id \in {"A"} |-> ctxs[id].Rounds]
    /\ NothingElse

FormNext == RoundForm

FormSpec == FormInit /\ [][FormNext]_vars

\* ---------------------------------------------------------------------------------
\* The claims about formOpinions
\* ---------------------------------------------------------------------------------

\* formOpinions runs with the random number rand.
FormedWith(rand) ==
    /\ pc = "form"
    /\ formOpinions(rand)
    /\ pc' = "finalize"

\* The bounds of the stage a context is in.
StageBounds(voteCtx) ==
    IF voteCtx.Rounds = 0
    THEN <<paras.FirstRoundLowerBoundThreshold, paras.FirstRoundUpperBoundThreshold>>
    ELSE IF voteCtx.Rounds > paras.TotalRoundsCoolingOffPeriod + paras.TotalRoundsFinalization
                                 - paras.TotalRoundsFixedThreshold
    THEN <<paras.EndingRoundsFixedThreshold, paras.EndingRoundsFixedThreshold>>
    ELSE <<paras.SubsequentRoundsLowerBoundThreshold,
           paras.SubsequentRoundsUpperBoundThreshold>>

\* formOpinions compares the biased proportion of the context with a threshold.
Compared(voteCtx) ==
    /\ ~IsNew(voteCtx)
    /\ ~IsNegative(biasTowardsOwnOpinion(voteCtx))

ThresholdInBand(rand) ==
    \A id \in DOMAIN ctxs :
        Compared(ctxs[id]) =>
            LET lower == StageBounds(ctxs[id])[1]
                upper == StageBounds(ctxs[id])[2]
                threshold == 100 * lower + rand * (upper - lower)
            IN  /\ 100 * lower <= threshold
                /\ threshold <= 100 * upper
                /\ ctxs'[id] = AddOpinion(ctxs[id],
                                   IF AtLeast(biasTowardsOwnOpinion(ctxs[id]), threshold)
                                   THEN "Like" ELSE "Dislike")

FormedWithinBand == \A rand \in Rands : FormedWith(rand) => ThresholdInBand(rand)

BiasedAtLeast(voteCtx, threshold) ==
    LET own == voteCtx.Weights.OwnWeight
        total == voteCtx.Weights.TotalWeights
        p == voteCtx.ProportionLiked
        last == LastOpinion(voteCtx)
    IN  IF IsNaN(p) THEN FALSE
        ELSE IF total = 0 \/ last \notin {"Like", "Dislike"}
        THEN 10000 * p[1] >= threshold * p[2]
        ELSE 10000 * (own * (IF last = "Like" THEN 1 ELSE 0) * p[2] + (total - own) * p[1])
                 >= threshold * total * p[2]

NoOpinionFormable(voteCtx) ==
    \/ voteCtx.ProportionLiked = <<-1, 1>>
    \/ voteCtx.Weights.OwnWeight > 0 /\ voteCtx.Weights.TotalWeights = 0

OpinionFormedFromBiased(rand) ==
    \A id \in DOMAIN ctxs :
        ctxs[id].Rounds >= 1 =>
            LET bounds == setThreshold(ctxs[id])
                threshold == RandUniformThreshold(rand, bounds[1], bounds[2])
            IN  IF NoOpinionFormable(ctxs[id])
                THEN ctxs'[id] = ctxs[id]
                ELSE ctxs'[id] = [ctxs[id] EXCEPT !.Opinions =
                                     Append(@, IF BiasedAtLeast(ctxs[id], threshold)
                                               THEN "Like" ELSE "Dislike")]

FormedFromBiased == \A rand \in Rands : FormedWith(rand) => OpinionFormedFromBiased(rand)

LockCallers == {"Vote", "IntermediateOpinion", "Round"}

Ins(op, on) == [op |-> op, on |-> on]

\* The mutant of VoteProgram: the contexts lock is taken first.
VoteProgramContextsFirst ==
    << Ins("RLock", "ctxsMu"),
       Ins("Lock", "queueMu"),
       Ins("do", "admit"),
       Ins("Unlock", "queueMu"),
       Ins("RUnlock", "ctxsMu") >>

\* FPC.Vote, fpc.go 76-91; the deferred calls run last in, first out.
VoteProgram ==
    << Ins("Lock", "queueMu"),      \* 77
       Ins("RLock", "ctxsMu"),      \* 79
       Ins("do", "admit"),          \* 81-90
       Ins("RUnlock", "ctxsMu"),    \* 80
       Ins("Unlock", "queueMu") >>  \* 78

\* FPC.IntermediateOpinion, fpc.go 93-103.
IntermediateOpinionProgram ==
    << Ins("RLock", "ctxsMu"),      \* 96
       Ins("do", "lastOpinion"),    \* 98-102
       Ins("RUnlock", "ctxsMu") >>  \* 97

\* FPC.Round, fpc.go 112-158, with the bodies of enqueue (160-175), formOpinions
\* (179-202), finalizeOpinions (205-220), voteContextIDs (376-388) and queryOpinions
\* (222-375) in the place of their calls.
RoundProgram ==
    << Ins("Lock", "queueMu"),      \*  1: enqueue, 161
       Ins("Lock", "ctxsMu"),       \*  2: 163
       Ins("do", "enqueue"),        \*  3: 165-174
       Ins("Unlock", "ctxsMu"),     \*  4: 164
       Ins("Unlock", "queueMu"),    \*  5: 162
       Ins("if", "lastRoundCompletedSuccessfully"),  \*  6: Round, 118
       Ins("RLock", "ctxsMu"),      \*  7: formOpinions, 180
       Ins("do", "formOpinions"),   \*  8: 182-201
       Ins("RUnlock", "ctxsMu"),    \*  9: 181
       Ins("Lock", "ctxsMu"),       \* 10: finalizeOpinions, 206
       Ins("do", "finalizeOpinions"), \* 11: 208-219
       Ins("Unlock", "ctxsMu"),     \* 12: 207
       Ins("do", "increment"),      \* 13: Round, 128-130
       Ins("RLock", "ctxsMu"),      \* 14: voteContextIDs, 377
       Ins("do", "voteContextIDs"), \* 15: 379-386
       Ins("RUnlock", "ctxsMu"),    \* 16: 378
       Ins("do", "query"),          \* 17: queryOpinions, 228-336
       Ins("RLock", "ctxsMu"),      \* 18: 338
       Ins("do", "tally"),          \* 19: 341-372
       Ins("RUnlock", "ctxsMu"),    \* 20: 339
       Ins("do", "succeed") >>      \* 21: Round, 133-156

\* Where Round goes on when lastRoundCompletedSuccessfully is false, and where the
\* query of opinions ends without a tally.
AtIncrement == CHOOSE i \in DOMAIN RoundProgram : RoundProgram[i] = Ins("do", "increment")

AtSucceed == CHOOSE i \in DOMAIN RoundProgram : RoundProgram[i] = Ins("do", "succeed")

Program(c) ==
    CASE c = "Vote" -> VoteProgram
      [] c = "IntermediateOpinion" -> IntermediateOpinionProgram
      [] c = "Round" -> RoundProgram

\* The engine as New returns it, nobody calling.
LocksInit ==
    /\ NewFPC(<<ScenarioParameters, "any">>)
    /\ NoCalls
    /\ NoQueue
    /\ queueCalls = [nil |-> TRUE]
    /\ tracker = [nil |-> TRUE]
    /\ fpcLocks = [queueMu |-> "-",
                   ctxsMu |-> [writer |-> "-", pending |-> "-", readers |-> {}],
                   at |-> [c \in LockCallers |-> 0],
                   queued |-> FALSE, active |-> FALSE, tallied |-> FALSE,
                   lastRoundCompletedSuccessfully |-> FALSE]

\* The instruction the caller is at; 0: it is not in a call.
At(c) == fpcLocks.at[c]

InCall(c) == At(c) # 0

Instruction(c) == Program(c)[At(c)]

\* The position after instruction i of the caller's program; the call returns
\* after the last one.
PositionAfter(c, i) == IF i = Len(Program(c)) THEN 0 ELSE i + 1

\* c calls its function.
Call(c) ==
    /\ ~InCall(c)
    /\ fpcLocks' = [fpcLocks EXCEPT !.at[c] = 1]
    /\ UNCHANGED <<fpcVars, fnCall, fnResult, txn, idCalls, callStack, queueVars,
                   queueCalls, tracker>>

\* sync.Mutex and sync.RWMutex: Lock of the RWMutex first keeps later readers out,
\* then waits for the readers that hold it.
LockStep(c) ==
    /\ InCall(c)
    /\ LET ins == Instruction(c)
           mu == fpcLocks.ctxsMu
       IN  \/ /\ ins = Ins("Lock", "queueMu")
              /\ fpcLocks.queueMu = "-"
              /\ fpcLocks' = [fpcLocks EXCEPT !.queueMu = c, !.at[c] = PositionAfter(c, At(c))]
           \/ /\ ins = Ins("Unlock", "queueMu")
              /\ fpcLocks' = [fpcLocks EXCEPT !.queueMu = "-", !.at[c] = PositionAfter(c, At(c))]
           \/ /\ ins = Ins("Lock", "ctxsMu")
              /\ mu.writer = "-" /\ mu.pending = "-"
              /\ fpcLocks' = [fpcLocks EXCEPT !.ctxsMu.pending = c]
           \/ /\ ins = Ins("Lock", "ctxsMu")
              /\ mu.pending = c /\ mu.readers = {}
              /\ fpcLocks' = [fpcLocks EXCEPT !.ctxsMu.pending = "-",
                                              !.ctxsMu.writer = c,
                                              !.at[c] = PositionAfter(c, At(c))]
           \/ /\ ins = Ins("Unlock", "ctxsMu")
              /\ fpcLocks' = [fpcLocks EXCEPT !.ctxsMu.writer = "-",
                                              !.at[c] = PositionAfter(c, At(c))]
           \/ /\ ins = Ins("RLock", "ctxsMu")
              /\ mu.writer = "-" /\ mu.pending = "-"
              /\ fpcLocks' = [fpcLocks EXCEPT !.ctxsMu.readers = @ \cup {c},
                                              !.at[c] = PositionAfter(c, At(c))]
           \/ /\ ins = Ins("RUnlock", "ctxsMu")
              /\ fpcLocks' = [fpcLocks EXCEPT !.ctxsMu.readers = @ \ {c},
                                              !.at[c] = PositionAfter(c, At(c))]
    /\ UNCHANGED <<fpcVars, fnCall, fnResult, txn, idCalls, callStack, queueVars,
                   queueCalls, tracker>>

\* What a part of a body leaves: the data and the instruction to go on with.
Leaves(data, goto) ==
    [queued |-> data.queued, active |-> data.active, tallied |-> data.tallied,
     lastRoundCompletedSuccessfully |-> data.lastRoundCompletedSuccessfully,
     goto |-> goto]

\* The outcomes of the part `what` of a body, run by c at instruction i.
Outcomes(c, i, what) ==
    LET d == fpcLocks
        next == PositionAfter(c, i)
    IN  CASE what = "admit" ->
                 \* ErrVoteAlreadyOngoing, or the context is pushed
                 IF d.queued \/ d.active THEN {Leaves(d, next)}
                 ELSE {Leaves([d EXCEPT !.queued = TRUE], next)}
          [] what = "lastOpinion" -> {Leaves(d, next)}
          [] what = "enqueue" ->
                 \* the pending context replaces the active one
                 IF d.queued
                 THEN {Leaves([d EXCEPT !.queued = FALSE, !.active = TRUE,
                                        !.tallied = FALSE], next)}
                 ELSE {Leaves(d, next)}
          [] what = "lastRoundCompletedSuccessfully" ->
                 {Leaves(d, IF d.lastRoundCompletedSuccessfully THEN next ELSE AtIncrement)}
          [] what = "formOpinions" -> {Leaves(d, next)}
          [] what = "finalizeOpinions" ->
                 \* the context is finalized or has failed, or it stays
                 IF d.active
                 THEN {Leaves(d, next), Leaves([d EXCEPT !.active = FALSE], next)}
                 ELSE {Leaves(d, next)}
          [] what = "increment" -> {Leaves(d, next)}
          [] what = "voteContextIDs" -> {Leaves(d, next)}
          [] what = "query" ->
                 \* nothing to vote on; or an error is returned, or every queried
                 \* giver has failed and the votes are tallied (a goroutine with an
                 \* answer never ends, and wg.Wait with it: no outcome)
                 IF ~d.active THEN {Leaves(d, AtSucceed)}
                 ELSE {Leaves(d, 0), Leaves(d, next)}
          [] what = "tally" ->
                 \* ProportionLiked is written if enough opinions were received
                 {Leaves(d, next), Leaves([d EXCEPT !.tallied = TRUE], next)}
          [] what = "succeed" ->
                 {Leaves([d EXCEPT !.lastRoundCompletedSuccessfully = TRUE], next)}

\* c runs the part of a body it is at.
BodyStep(c) ==
    /\ InCall(c)
    /\ Instruction(c).op \in {"do", "if"}
    /\ \E o \in Outcomes(c, At(c), Instruction(c).on) :
           fpcLocks' = [fpcLocks EXCEPT !.queued = o.queued, !.active = o.active,
                                        !.tallied = o.tallied,
                                        !.lastRoundCompletedSuccessfully =
                                            o.lastRoundCompletedSuccessfully,
                                        !.at[c] = o.goto]
    /\ UNCHANGED <<fpcVars, fnCall, fnResult, txn, idCalls, callStack, queueVars,
                   queueCalls, tracker>>

LocksNext ==
    \E c \in LockCallers :
        \/ Call(c)
        \/ LockStep(c)
        \/ BodyStep(c)

LocksSpec == LocksInit /\ [][LocksNext]_vars

\* ---------------------------------------------------------------------------------
\* The claims about the locks of the voting engine
\* ---------------------------------------------------------------------------------

HoldsContextsLock(c) ==
    \/ fpcLocks.ctxsMu.writer = c
    \/ fpcLocks.ctxsMu.pending = c
    \/ c \in fpcLocks.ctxsMu.readers

\* c is at a lock it cannot take as long as d does not release what it holds.
WaitsFor(c, d) ==
    /\ c # d
    /\ InCall(c)
    /\ LET ins == Instruction(c)
           mu == fpcLocks.ctxsMu
       IN  \/ ins = Ins("Lock", "queueMu") /\ fpcLocks.queueMu = d
           \/ ins = Ins("Lock", "ctxsMu") /\ (mu.writer = d \/ mu.pending = d \/ d \in mu.readers)
           \/ ins = Ins("RLock", "ctxsMu") /\ (mu.writer = d \/ mu.pending = d)

\* c waits for d, directly or through a third caller.
WaitsForChain(c, d) ==
    \/ WaitsFor(c, d)
    \/ \E e \in LockCallers : WaitsFor(c, e) /\ WaitsFor(e, d)

QueueMutexFirst ==
    \A c \in LockCallers :
        InCall(c) /\ Instruction(c) = Ins("Lock", "queueMu") => ~HoldsContextsLock(c)

NoCircularWait ==
    \A c, d \in LockCallers : ~(c # d /\ WaitsForChain(c, d) /\ WaitsForChain(d, c))

\* C33: Vote, IntermediateOpinion and the steps of Round take the queue mutex before
\* the contexts lock, and no interleaving of their calls reaches a state in which
\* callers wait for each other.
C33_QueueMutexBeforeContextsLock == QueueMutexFirst /\ NoCircularWait

\* Vote holds the queue mutex and waits for the contexts lock, which Round holds
\* exclusively in finalizeOpinions, while IntermediateOpinion waits for it as well.
C33_Witness ==
    /\ fpcLocks.queueMu = "Vote"
    /\ WaitsFor("Vote", "Round")
    /\ WaitsFor("IntermediateOpinion", "Round")
    /\ fpcLocks.ctxsMu.writer = "Round"

\* The fields of the engine and of the vote context the part `what` of a body reads
\* and writes, as <<kind, field>>.
AccessesOf(what) ==
    LET d == fpcLocks
        Reads(fields) == {<<"read", f>> : f \in fields}
        Writes(fields) == {<<"write", f>> : f \in fields}
    IN  CASE what = "admit" ->
                 Reads({"queueSet", "ctxs"})
                     \cup (IF d.queued \/ d.active THEN {} ELSE Writes({"queue", "queueSet"}))
          [] what = "lastOpinion" ->
                 Reads({"ctxs"}) \cup (IF d.active THEN Reads({"Opinions"}) ELSE {})
          [] what = "enqueue" ->
                 Reads({"queue"})
                     \cup (IF d.queued THEN Writes({"ctxs", "queue", "queueSet"}) ELSE {})
          [] what = "formOpinions" ->
                 Reads({"ctxs"})
                     \cup (IF d.active THEN Reads({"ProportionLiked"}) ELSE {})
                     \cup (IF d.active /\ d.tallied
                           THEN Reads({"Rounds", "Weights", "Opinions"}) \cup Writes({"Opinions"})
                           ELSE {})
          [] what = "finalizeOpinions" ->
                 Reads({"ctxs"})
                     \cup (IF d.active
                           THEN Reads({"Opinions", "Rounds"}) \cup Writes({"ctxs"})
                           ELSE {})
          [] what = "increment" ->
                 Reads({"ctxs"}) \cup (IF d.active THEN Writes({"Rounds"}) ELSE {})
          [] what = "voteContextIDs" ->
                 Reads({"ctxs"}) \cup (IF d.active THEN Reads({"Type"}) ELSE {})
          [] what = "tally" ->
                 Reads({"ctxs"})
                     \cup (IF d.active THEN Writes({"Weights", "ProportionLiked"}) ELSE {})
          [] what = "succeed" ->
                 Reads({"ctxs"}) \cup Writes({"lastRoundCompletedSuccessfully"})
          [] OTHER -> {}

\* What the caller reads and writes in the state.
Accesses(c) ==
    IF InCall(c) /\ Instruction(c).op = "do" THEN AccessesOf(Instruction(c).on) ELSE {}

\* The active-contexts mapping and the fields of a vote context.
ContextFields == {"ctxs", "Opinions", "Rounds", "Weights", "ProportionLiked", "Type"}

WritesUnderExclusiveLock ==
    \A a \in Accesses("Round") :
        a[1] = "write" /\ a[2] \in ContextFields => fpcLocks.ctxsMu.writer = "Round"

NoReadWhileWritten ==
    \A c \in {"Vote", "IntermediateOpinion"} :
        \A a \in Accesses(c), w \in Accesses("Round") :
            ~(a[1] = "read" /\ w[1] = "write" /\ a[2] = w[2] /\ a[2] \in ContextFields)

\* C34: every write Round makes to the active-contexts mapping or to a vote context
\* happens while Round holds the contexts lock exclusively, and no IntermediateOpinion
\* or Vote call reads what Round is writing.
C34_RoundWritesUnderExclusiveLock == WritesUnderExclusiveLock /\ NoReadWhileWritten

\* ---------------------------------------------------------------------------------
\* The claim about enqueue
\* ---------------------------------------------------------------------------------

\* Round runs its enqueue step.
EnqueueRuns == pc = "idle" /\ pc' # "idle"

PendingBecomeActive ==
    /\ queue' = <<>>
    /\ queueSet' = {}
    /\ DOMAIN ctxs' = DOMAIN ctxs \cup QueueIDs
    /\ \A i \in DOMAIN queue :
           queue[i].ID \notin DOMAIN ctxs => ctxs'[queue[i].ID] = queue[i]
    /\ \A id \in DOMAIN ctxs : ctxs'[id] = ctxs[id]

\* Vote admits no id that is pending or active, so no pending id is an active one.
PendingNotActive == QueueIDs \cap DOMAIN ctxs = {}

EnqueueMovesPending == EnqueueRuns => PendingNotActive /\ PendingBecomeActive

Cancel ==
    \E i \in 1..Len(messageQueue.messageHeap) :
        /\ messageQueue' =
               [messageQueue EXCEPT !.messageHeap = heapRemove(messageQueue.messageHeap, i - 1).h]
        /\ UNCHANGED <<fpcVars, fnCall, fnResult, txn, idCalls, callStack, polled,
                       concurrentVars>>

\* MessageQueue.Poll(waitIfEmpty) on a queue that holds an element, what it returns
\* left aside: the element at the polled index leaves the heap.
PollElement ==
    /\ Len(messageQueue.messageHeap) > 0
    /\ messageQueue' =
           [messageQueue EXCEPT !.messageHeap =
               heapRemove(@, PolledIndex(messageQueue.messageHeap)).h]
    /\ UNCHANGED <<fpcVars, fnCall, fnResult, txn, idCalls, callStack, polled,
                   concurrentVars>>

SizeNext == Queue \/ PollElement \/ Cancel \/ Shutdown

SizeSpec == QueueInit /\ [][SizeNext]_vars

\* ---------------------------------------------------------------------------------
\* The claim about the size limit of a MessageQueue
\* ---------------------------------------------------------------------------------

\* MessageQueue.Size()
Size(m) == Len(m.messageHeap)

QueuedElements(m) == {m.messageHeap[i] : i \in DOMAIN m.messageHeap}

SizeWithinLimit(m) == m.maxSize > 0 => Size(m) <= m.maxSize

\* What a Queue call on a queue that is not shut down leaves: the element is added,
\* and if the queue held maxSize elements exactly one element is evicted.
QueueEvictsOne(message) ==
    LET offered == QueuedElements(messageQueue) \cup {message}
    IN  IF messageQueue.maxSize > 0 /\ Size(messageQueue) + 1 > messageQueue.maxSize
        THEN /\ Size(messageQueue') = messageQueue.maxSize
             /\ QueuedElements(messageQueue') \subseteq offered
             /\ Cardinality(offered \ QueuedElements(messageQueue')) = 1
        ELSE /\ Size(messageQueue') = Size(messageQueue) + 1
             /\ QueuedElements(messageQueue') = offered

SizeLimitKept ==
    /\ SizeWithinLimit(messageQueue')
    /\ \A message \in Messages :
           QueueMessage(message) /\ ~messageQueue.isShutdown => QueueEvictsOne(message)

\* C37: a MessageQueue built with WithMaxSize(n), n > 0, holds at most n elements
\* after every Queue, Poll, Cancel and Shutdown call, and a Queue call that would
\* exceed n evicts exactly one element.
C37_SizeWithinMaxSize == [][SizeLimitKept]_vars

\* A queue with a limit of two elements holds the messages with the IDs 2 and 3, both
\* of priority 5: the message with ID 1 and priority 5 sorts before either of them,
\* and where it was offered to the full queue it was the one evicted.
C37_Witness ==
    /\ messageQueue.maxSize = 2
    /\ Size(messageQueue) = 2
    /\ ~messageQueue.isShutdown
    /\ {x.ID : x \in QueuedElements(messageQueue)} = {2, 3}
    /\ \A x \in QueuedElements(messageQueue) : x.Priority = 5

\* ---------------------------------------------------------------------------------
\* The calls of a MessageQueue, run by goroutines of their own
\*
\* A step is what a call does between two points where another goroutine can come
\* in: a section under messageHeapMutex (up to its Unlock, or to waitCond.Wait, which
\* queues the goroutine and releases the mutex at once), a section under
\* shutdownMutex, a Signal, the close of shutdownSignal, a select.
\* ---------------------------------------------------------------------------------

PollersBound == 2

PanicOnModificationsAfterShutdown == 4

Pollers == {"Poll" \o ToString(i) : i \in 1..PollersBound}

Goroutines == {"Queue", "Shutdown"} \cup Pollers

\* The messages queued by the calls: those of priority 5.
CallMessages == {message \in Messages : message.Priority = 5}

ShutdownFlags ==
    {0, CancelPendingElements, PanicOnModificationsAfterShutdown,
     CancelPendingElements + PanicOnModificationsAfterShutdown}

\* A goroutine that is in no call.
Idle == [at |-> "idle"]

CallsInit ==
    /\ NewFPC(<<ScenarioParameters, "like">>)
    /\ NoCalls
    /\ fpcLocks = [nil |-> TRUE]
    /\ tracker = [nil |-> TRUE]
    /\ \E maxSize \in 0..MaxSizeBound : messageQueue = NewMessageQueue(maxSize)
    /\ polled = <<>>
    /\ queueCalls = [goroutine |-> [g \in Goroutines |-> Idle],
                     waiters |-> <<>>,            \* those in waitCond.Wait, first in first
                     shutdownSignalClosed |-> FALSE,
                     shutdownReturned |-> FALSE,
                     panicked |-> FALSE]

Goroutine(g) == queueCalls.goroutine[g]

CallsUnchanged == UNCHANGED <<fpcVars, fnCall, fnResult, txn, idCalls, callStack, polled,
                              fpcLocks, tracker>>

\* Wait has returned for the goroutines woken: they take the mutex again and go on
\* with the loop of Poll.
Woken(goroutines, woken) ==
    [g \in Goroutines |->
        IF g \in woken THEN [goroutines[g] EXCEPT !.at = "Lock"] ELSE goroutines[g]]

\* MessageQueue.IsShutdown()
IsShutdown(m) == m.isShutdown

\* m.Queue(message) is called.
CallQueue ==
    /\ ~queueCalls.panicked
    /\ Goroutine("Queue") = Idle
    /\ \E message \in CallMessages :
          /\ message.ID \notin {x.ID : x \in QueuedElements(messageQueue)}
          /\ \A p \in Pollers : Goroutine(p).at = "select" => Goroutine(p).element.ID # message.ID
          /\ queueCalls' = [queueCalls EXCEPT !.goroutine["Queue"] =
                               [at |-> "IsShutdown", message |-> message]]
    /\ UNCHANGED messageQueue
    /\ CallsUnchanged

\* The steps of Queue, messagequeue.go 45-88.
QueueStep ==
    /\ ~queueCalls.panicked
    /\ LET g == Goroutine("Queue")
       IN  \/ /\ g.at = "IsShutdown"                                    \* 52-58
              /\ queueCalls' =
                     IF ~IsShutdown(messageQueue)
                     THEN [queueCalls EXCEPT !.goroutine["Queue"].at = "Lock"]
                     ELSE IF HasBits(messageQueue.shutdownFlags,
                                     PanicOnModificationsAfterShutdown)
                     THEN [queueCalls EXCEPT !.panicked = TRUE]
                     ELSE [queueCalls EXCEPT !.goroutine["Queue"] = Idle]
              /\ UNCHANGED messageQueue
           \/ /\ g.at = "Lock"                                          \* 61-82
              /\ LET pushed == heapPush(messageQueue.messageHeap, g.message)
                 IN  messageQueue' =
                         [messageQueue EXCEPT !.messageHeap =
                             IF messageQueue.maxSize > 0 /\ Len(pushed) > messageQueue.maxSize
                             THEN heapRemove(pushed, 0).h
                             ELSE pushed]
              /\ queueCalls' = [queueCalls EXCEPT !.goroutine["Queue"].at = "Signal"]
           \/ /\ g.at = "Signal"                                        \* 85-87
              /\ queueCalls' =
                     IF queueCalls.waiters = <<>>
                     THEN [queueCalls EXCEPT !.goroutine["Queue"] = Idle]
                     ELSE [queueCalls EXCEPT
                               !.waiters = Tail(@),
                               !.goroutine = [Woken(@, {Head(queueCalls.waiters)})
                                                 EXCEPT !["Queue"] = Idle]]
              /\ UNCHANGED messageQueue
    /\ CallsUnchanged

\* m.Poll(waitIfEmpty) is called.
CallPoll(p) ==
    /\ ~queueCalls.panicked
    /\ Goroutine(p) = Idle
    /\ \E waitIfEmpty \in BOOLEAN :
          queueCalls' = [queueCalls EXCEPT !.goroutine[p] =
                            [at |-> "Lock", waitIfEmpty |-> waitIfEmpty]]
    /\ UNCHANGED messageQueue
    /\ CallsUnchanged

\* The steps of Poll, messagequeue.go 92-142; no element is canceled.
PollStep(p) ==
    /\ ~queueCalls.panicked
    /\ LET g == Goroutine(p)
       IN  \/ /\ g.at = "Lock"                                          \* 95-111
              /\ IF Len(messageQueue.messageHeap) = 0
                 THEN /\ queueCalls' =
                             IF ~g.waitIfEmpty \/ IsShutdown(messageQueue)
                             THEN [queueCalls EXCEPT !.goroutine[p] = Idle]
                             ELSE [queueCalls EXCEPT !.goroutine[p].at = "Wait",
                                                     !.waiters = Append(@, p)]
                      /\ UNCHANGED messageQueue
                 ELSE LET removed == heapRemove(messageQueue.messageHeap,
                                                PolledIndex(messageQueue.messageHeap))
                      IN  /\ messageQueue' = [messageQueue EXCEPT !.messageHeap = removed.h]
                          /\ queueCalls' = [queueCalls EXCEPT !.goroutine[p] =
                                               [at |-> "select", element |-> removed.x]]
           \/ /\ g.at = "select"                                        \* 114-140
              /\ queueCalls' = [queueCalls EXCEPT !.goroutine[p] = Idle]
              /\ UNCHANGED messageQueue
    /\ CallsUnchanged

\* m.Shutdown(optionalShutdownFlags...) is called.
CallShutdown ==
    /\ ~queueCalls.panicked
    /\ Goroutine("Shutdown") = Idle
    /\ \E flags \in ShutdownFlags :
          queueCalls' = [queueCalls EXCEPT !.goroutine["Shutdown"] =
                            [at |-> "shutdownMutex", flags |-> flags]]
    /\ UNCHANGED messageQueue
    /\ CallsUnchanged

\* a | b for sets of flags of one bit each.
BitOr(a, b) ==
    LET bit(f) == IF HasBits(a, f) \/ HasBits(b, f) THEN f ELSE 0
    IN  bit(1) + bit(2) + bit(4)

\* The steps of Shutdown, messagequeue.go 162-210.
ShutdownStep ==
    /\ ~queueCalls.panicked
    /\ LET g == Goroutine("Shutdown")
       IN  \/ /\ g.at = "shutdownMutex"                                 \* 164-188
              /\ IF messageQueue.isShutdown
                 THEN /\ queueCalls' =
                             IF HasBits(messageQueue.shutdownFlags,
                                        PanicOnModificationsAfterShutdown)
                             THEN [queueCalls EXCEPT !.panicked = TRUE]
                             ELSE [queueCalls EXCEPT !.goroutine["Shutdown"] = Idle]
                      /\ UNCHANGED messageQueue
                 ELSE /\ messageQueue' =
                             [messageQueue EXCEPT !.isShutdown = TRUE,
                                                  !.shutdownFlags = BitOr(@, g.flags)]
                      /\ queueCalls' = [queueCalls EXCEPT !.goroutine["Shutdown"].at = "close"]
           \/ /\ g.at = "close"                                         \* 191
              /\ queueCalls' = [queueCalls EXCEPT !.shutdownSignalClosed = TRUE,
                                                  !.goroutine["Shutdown"].at = "Lock"]
              /\ UNCHANGED messageQueue
           \/ /\ g.at = "Lock"                                          \* 193-209
              /\ IF Len(messageQueue.messageHeap) = 0
                 THEN /\ queueCalls' =
                             [queueCalls EXCEPT
                                 !.waiters = <<>>,
                                 !.shutdownReturned = TRUE,
                                 !.goroutine =
                                     [Woken(@, {queueCalls.waiters[i] :
                                                   i \in DOMAIN queueCalls.waiters})
                                         EXCEPT !["Shutdown"] = Idle]]
                      /\ UNCHANGED messageQueue
                 ELSE /\ messageQueue' =
                             [messageQueue EXCEPT !.messageHeap =
                                 IF HasBits(messageQueue.shutdownFlags, CancelPendingElements)
                                 THEN RemoveFirst(@, Len(@))
                                 ELSE @]
                      /\ queueCalls' = [queueCalls EXCEPT !.shutdownReturned = TRUE,
                                                          !.goroutine["Shutdown"] = Idle]
    /\ CallsUnchanged

CallsNext ==
    \/ CallQueue
    \/ QueueStep
    \/ \E p \in Pollers : CallPoll(p)
    \/ \E p \in Pollers : PollStep(p)
    \/ CallShutdown
    \/ ShutdownStep

CallsSpec == CallsInit /\ [][CallsNext]_vars

\* Every call that can take a step takes one in the end; nobody is bound to call.
CallsFairSpec ==
    /\ CallsSpec
    /\ WF_vars(QueueStep)
    /\ \A p \in Pollers : WF_vars(PollStep(p))
    /\ WF_vars(ShutdownStep)

\* ---------------------------------------------------------------------------------
\* The claim about Queue and Shutdown
\* ---------------------------------------------------------------------------------

\* A step that starts in a queue marked as shut down adds no element to it.
NothingAddedAfterShutdown ==
    IsShutdown(messageQueue) =>
        QueuedElements(messageQueue') \subseteq QueuedElements(messageQueue)

\* Shutdown has returned from a call that marked the queue, with CancelPendingElements.
ShutdownCanceledPending ==
    /\ queueCalls.shutdownReturned
    /\ HasBits(messageQueue.shutdownFlags, CancelPendingElements)

EmptyAfterCancelingShutdown ==
    ShutdownCanceledPending => Len(messageQueue.messageHeap) = 0

ShutdownKept ==
    /\ NothingAddedAfterShutdown
    /\ EmptyAfterCancelingShutdown'

\* C36: once Shutdown has marked the queue, no step of a Queue call adds an element to
\* it, and after a Shutdown with CancelPendingElements has returned the queue is empty
\* and stays empty, also while a Queue call runs beside the Shutdown call.
C36_NoQueueAfterShutdown == [][ShutdownKept]_vars

\* ---------------------------------------------------------------------------------
\* The claim about a Poll call that waits
\* ---------------------------------------------------------------------------------

\* Poll(true) of p is blocked in waitCond.Wait.
Blocked(p) == Goroutine(p).at = "Wait"

\* The call of p is blocked no longer, or the program has ended with a panic.
Released(p) == ~Blocked(p) \/ queueCalls.panicked

ReturnsAfterQueue ==
    \A p \in Pollers :
        (Blocked(p) /\ Len(messageQueue.messageHeap) > 0)
            ~> (Released(p) \/ Len(messageQueue.messageHeap) = 0)

ReturnsAfterShutdown ==
    \A p \in Pollers : (Blocked(p) /\ IsShutdown(messageQueue)) ~> Released(p)

\* C38: a Poll(true) call blocked on the empty queue does not stay blocked while the
\* queue has an element for it, and it does not stay blocked once Shutdown has marked
\* the queue: no interleaving of Poll, Queue and Shutdown loses its wake-up.
C38_BlockedPollReturns == ReturnsAfterQueue /\ ReturnsAfterShutdown

\* ---------------------------------------------------------------------------------
\* The claim about the index of an AliasUnlockBlock
\* ---------------------------------------------------------------------------------

\* An AliasOutput without a fork, locked by an alias address, is unlocked by an
\* AliasUnlockBlock: UnlockValid gets to the check of the index.
AliasUnlockedByIndex ==
    /\ AliasUnlock
    /\ OutputType(fnCall.o) = AliasOutputType
    /\ LET r == findChainedOutputAndCheckFork(fnCall.o, fnCall.tx)
       IN  /\ r.err = "nil"
           /\ AddressType(UnlockingAddress(fnCall.o, r)) = AliasAddressType

\* The index of the unlock block is no index of inputs, the length of inputs included.
IndexOutOfInputs == fnCall.unlockBlock.ReferencedIndex >= Len(fnCall.inputs)

IndexIsLength == fnCall.unlockBlock.ReferencedIndex = Len(fnCall.inputs)

WrongIndexReturned ==
    /\ fnResult.returned
    /\ fnResult.crash = "none"
    /\ ~fnResult.unlockValid
    /\ fnResult.err = "referenced alias does not unlock alias: wrong alias reference index"

\* C39: an AliasOutput unlocked by an AliasUnlockBlock whose index is at least the
\* number of inputs makes UnlockValid return false with the error 'wrong alias
\* reference index'; the call does not end in an out-of-range access.
C39_WrongIndexIsAnError ==
    (AliasUnlockedByIndex /\ IndexOutOfInputs /\ UnlockEnded) => WrongIndexReturned

\* The same for the indices beyond the number of inputs only.
WrongIndexBeyondLength ==
    (AliasUnlockedByIndex /\ IndexOutOfInputs /\ ~IndexIsLength /\ UnlockEnded)
        => WrongIndexReturned

IndexBeyondLengthEnded ==
    AliasUnlockedByIndex /\ IndexOutOfInputs /\ ~IndexIsLength /\ UnlockEnded

\* ---------------------------------------------------------------------------------
\* The node queue size tracker
\*
\* A channel is a number; tracker.closed holds the channels that are closed.  The
\* requests are handled one after the other; the recording goroutine of start and
\* the SchedulerTicked events of the scheduler run beside them.
\* ---------------------------------------------------------------------------------

RequestsBound == 3

\* The number of values the model lets wait in getQSize (the channel holds 1024).
BufferedBound == 2

Cmds == {"start", "stop"}

NoHandler == [at |-> "idle"]

NoRecorder == [at |-> "none"]

\* configure(), and run() up to <-ctx.Done()
TrackerInit ==
    /\ NewFPC(<<ScenarioParameters, "like">>)
    /\ NoCalls
    /\ NoQueue
    /\ fpcLocks = [nil |-> TRUE]
    /\ queueCalls = [nil |-> TRUE]
    /\ tracker = [stopChan |-> 1,
                  getQSize |-> 2,
                  made |-> 2,
                  closed |-> {},
                  attached |-> FALSE,
                  wg |-> 0,
                  buffered |-> 0,
                  recorder |-> NoRecorder,
                  handler |-> NoHandler,
                  requests |-> 0,
                  shutdown |-> FALSE,
                  panicked |-> "none"]

TrackerUnchanged ==
    UNCHANGED <<fpcVars, fnCall, fnResult, txn, idCalls, callStack, queueVars,
                fpcLocks, queueCalls>>

Running == tracker.panicked = "none"

\* handleRequest gets a request with the command cmd and goes to its call of stop().
Request ==
    /\ Running
    /\ tracker.handler = NoHandler
    /\ ~tracker.shutdown
    /\ tracker.requests < RequestsBound
    /\ \E cmd \in Cmds :
          tracker' = [tracker EXCEPT !.handler = [at |-> "Detach", cmd |-> cmd],
                                     !.requests = @ + 1]
    /\ TrackerUnchanged

\* The daemon shuts down: ctx.Done() is closed and the worker of run calls stop().
DaemonShutdown ==
    /\ Running
    /\ tracker.handler = NoHandler
    /\ ~tracker.shutdown
    /\ tracker' = [tracker EXCEPT !.handler = [at |-> "Detach", cmd |-> "shutdown"],
                                  !.shutdown = TRUE]
    /\ TrackerUnchanged

\* close(stopChan) as it would be if stop() left a closed channel alone.
CloseStopChanOnce(t) ==
    [t EXCEPT !.closed = @ \cup {t.stopChan}, !.handler.at = "Wait"]

\* close(stopChan) in stop()
CloseStopChan(t) ==
    IF t.stopChan \in t.closed
    THEN [t EXCEPT !.panicked = "close of closed channel"]
    ELSE [t EXCEPT !.closed = @ \cup {t.stopChan}, !.handler.at = "Wait"]

\* The steps of stop(), plugin.go 95-99.
Stop ==
    /\ Running
    /\ \/ /\ tracker.handler.at = "Detach"
          /\ tracker' = [tracker EXCEPT !.attached = FALSE, !.handler.at = "close"]
       \/ /\ tracker.handler.at = "close"
          /\ tracker' = CloseStopChan(tracker)
       \/ /\ tracker.handler.at = "Wait"
          /\ tracker.wg = 0
          /\ tracker' = [tracker EXCEPT !.handler =
                            IF tracker.handler.cmd = "start"
                            THEN [at |-> "start", cmd |-> "start"]
                            ELSE NoHandler]
    /\ TrackerUnchanged

\* start(), plugin.go 73-93, up to the go statement; the goroutine has deferred
\* close(getQSize) for the channel made here.
Start ==
    /\ Running
    /\ tracker.handler.at = "start"
    /\ tracker' = [tracker EXCEPT !.stopChan = tracker.made + 1,
                                  !.getQSize = tracker.made + 2,
                                  !.made = @ + 2,
                                  !.buffered = 0,
                                  !.attached = TRUE,
                                  !.wg = @ + 1,
                                  !.recorder = [at |-> "select",
                                                getQSize |-> tracker.made + 2],
                                  !.handler = NoHandler]
    /\ TrackerUnchanged

\* The scheduler ticks and the closure of configure sends the sizes to getQSize,
\* plugin.go 57-59.
SchedulerTicked ==
    /\ Running
    /\ tracker.attached
    /\ \/ tracker.getQSize \in tracker.closed
       \/ tracker.buffered < BufferedBound
    /\ tracker' = IF tracker.getQSize \in tracker.closed
                  THEN [tracker EXCEPT !.panicked = "send on closed channel"]
                  ELSE [tracker EXCEPT !.buffered = @ + 1]
    /\ TrackerUnchanged

\* The steps of the recording goroutine, plugin.go 80-92: the select takes a value or
\* finds stopChan closed; the deferred calls run, wg.Done() first.
Recorder ==
    /\ Running
    /\ \/ /\ tracker.recorder.at = "select"
          /\ tracker.buffered > 0
          /\ tracker' = [tracker EXCEPT !.buffered = @ - 1]
       \/ /\ tracker.recorder.at = "select"
          /\ tracker.stopChan \in tracker.closed
          /\ tracker' = [tracker EXCEPT !.recorder.at = "Done"]
       \/ /\ tracker.recorder.at = "Done"
          /\ tracker' = [tracker EXCEPT !.wg = @ - 1, !.recorder.at = "close"]
       \/ /\ tracker.recorder.at = "close"
          /\ tracker' =
                 IF tracker.recorder.getQSize \in tracker.closed
                 THEN [tracker EXCEPT !.panicked = "close of closed channel"]
                 ELSE [tracker EXCEPT !.closed = @ \cup {tracker.recorder.getQSize},
                                      !.recorder.at = "ended"]
    /\ TrackerUnchanged

TrackerNext ==
    \/ Request
    \/ DaemonShutdown
    \/ Stop
    \/ Start
    \/ SchedulerTicked
    \/ Recorder

TrackerSpec == TrackerInit /\ [][TrackerNext]_vars

\* ---------------------------------------------------------------------------------
\* The claim about the requests of the tracker
\* ---------------------------------------------------------------------------------

NoPanic == tracker.panicked = "none"

\* stop() returns from wg.Wait().
StopReturns == tracker.handler.at = "Wait" /\ tracker'.handler.at # "Wait"

\* The recording goroutine has left its loop and called wg.Done().
RecorderEnded == tracker.recorder.at \in {"none", "close", "ended"}

TrackerKept ==
    /\ NoPanic'
    /\ StopReturns => RecorderEnded

\* C40: no sequence of 'start' and 'stop' requests followed by a daemon shutdown
\* closes a closed channel or sends on one, and every stop() returns only after the
\* recording goroutine has ended.
C40_RequestsNeverPanic == [][TrackerKept]_vars

\* stop() is called with stopChan open.
StopsOpenChannel ==
    (tracker.handler.at = "close" /\ tracker.stopChan \notin tracker.closed) => TrackerKept

StopOfOpenChannel == [][StopsOpenChannel]_vars

====
